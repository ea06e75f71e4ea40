---- MODULE MCContract ----
\* A deployment through the system contract and a call of a user contract.
EXTENDS Contract

CONSTANTS deploy, invoke

MCContractAddress == [r \in Raw |-> IF r = deploy THEN <<"xkernel">> ELSE <<"wasm", "c">>]
====
