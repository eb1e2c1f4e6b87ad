-------------------------- MODULE MCEvidenceMemory --------------------------
(* Instances of EvidenceMemory for TLC.                                    *)
EXTENDS EvidenceMemory, TLC

CONSTANTS s1, s2, s3, s4, A, B, C, c1, c2, r1, r2, r3, g1, g2, g3, h1

S(id, source, content, root, group, parents, kind) ==
  [id |-> id, source |-> source, content |-> content, root |-> root,
   group |-> group, parents |-> parents, kind |-> kind]

(* Restatements, correlated sources, a derived signal and the collisions   *)
(* that make a batch inadmissible.                                         *)
MCArrivals ==
  { S(s1, A, c1, r1, g1, {}, "direct"),
    S(s2, B, c2, r1, g2, {}, "direct"),             \* restates r1
    S(s3, A, c2, r2, g1, {}, "sender_and_source"),  \* same source, new root
    S(s4, B, c1, r2, g2, {s3}, "direct"),           \* derived from s3
    S(s1, C, c1, r2, g3, {}, "sender"),             \* reuses a signal id
    S(s2, A, c1, r1, g1, {}, "direct"),             \* s1 under another id
    S(s4, B, c1, r1, g2, {s1}, "direct") }          \* derived from s1

(* Four observations of one source, each with a root of its own, all       *)
(* drawing on the credit of one group; one of them seen by two sources.    *)
CreditArrivals ==
  { S(s1, A, c1, r1, g1, {}, "direct"),
    S(s2, A, c2, r2, g1, {}, "sender_and_source"),
    S(s3, A, c1, r3, g1, {}, "direct"),
    S(s4, B, c1, r3, g2, {}, "direct") }

OneJudgment == { [t \in Targets |-> IF t = h1 THEN "confirming" ELSE "neutral"] }

MCJudgments ==
  { [t \in Targets |-> IF t = h1 THEN "confirming" ELSE "disconfirming"],
    [t \in Targets |-> IF t = h1 THEN "disconfirming" ELSE "neutral"] }
=============================================================================
