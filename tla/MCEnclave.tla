------------------------------ MODULE MCEnclave ------------------------------
(* Two machines, of which one has no CHAIN_ID; ciphertexts of two valid     *)
(* policies, of three that must be refused, and of something else.          *)
EXTENDS Enclave

CONSTANTS r1, r2, m1, m2, garbage

Opening(to, upTo) == [shares |-> [to |-> to, upTo |-> upTo], salt |-> 1]
First  == Opening(<<r1, r2>>, <<5000, 10000>>)
Second == Opening(<<r2>>, <<10000>>)
Short  == Opening(<<r1, r2>>, <<5000, 9999>>)
ToZero == Opening(<<ZeroAddress>>, <<10000>>)
Empty  == Opening(<<>>, <<>>)

MCOpenings == {First, Second, Short, ToZero, Empty}

Sealed(m, plain) == [sealedFor |-> m, plain |-> plain]
MCCiphertexts == {Sealed(m1, o) : o \in MCOpenings \cup {garbage}} \cup {Sealed(m2, First)}
MCMachines == {m1, m2}
MCWithChainId == {m1}
MCArmingTimes == {0, 1}
=============================================================================
