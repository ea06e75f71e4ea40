---- MODULE MCExtraction ----
\* Every transaction of up to two inputs and one output; every one of up to two
\* requests and two logs, after an input.  Wallets that watch up to two targets.
EXTENDS Extraction, SequencesExt, TLC

MCTx ==
  [inputs : BoundedSeq(Address, 2), outputs : BoundedSeq(Address, 1),
   requests : {<<>>}, buckets : {<<>>}] \cup
  [inputs : {<<a>> : a \in Address}, outputs : {<<>>},
   requests : BoundedSeq(Contract, 2), buckets : BoundedSeq(Name, 2)]

MCWallet ==
  LET Nothing == [t \in Target |-> NotWatched]
      Add(w)  == {[w EXCEPT ![t] = x] : <<t, x>> \in {<<t, x>> \in Target \X [key : Key, info : Infos] : x \in Watches(t)}}
  IN  {Nothing} \cup Add(Nothing) \cup UNION {Add(w) : w \in Add(Nothing)}

MCSymmetry ==
  Permutations(Address) \cup Permutations(Module) \cup Permutations(Name)
    \cup Permutations(Key) \cup Permutations(Observer)
====
