---------------------------- MODULE MCDurableAgent ----------------------------
(* DurableAgent for TLC: small sets of declarations and answers.            *)
EXTENDS DurableAgent

CONSTANTS MaxId, read, bash, c1, c2, m1, m2, d1, d2, e1, e2, k1, k2

Ids == 1..MaxId
Tool == {read, bash}

(* Declarations: only `read` is safe to replay.                             *)
Setup(model, tools, env, key) ==
  [config |-> [model |-> model,
               tools |-> [t \in Tool |-> IF t \in tools THEN d1 ELSE None]],
   env |-> env,
   replay |-> [t \in Tool |-> IF t = read THEN "safe" ELSE "never"],
   key |-> [t \in Tool |-> key], mcp |-> {}]

Base == Setup(m1, Tool, e1, k1)
OneSetup == {Base}
FewerTools == {Base, Setup(m1, {bash}, e1, k1)}
ModelChanges == {Base, Setup(m2, Tool, e1, k1)}
AllChange ==
  {Base, Setup(m2, Tool, e1, k1), Setup(m1, Tool, e2, k1),
   Setup(m1, Tool, e1, k2), Setup(m1, {bash}, e1, k1)}

(* Answers of the provider.                                                 *)
Text == [stop |-> "stop", calls |-> << >>, text |-> TRUE]
Empty == [stop |-> "stop", calls |-> << >>, text |-> FALSE]
CutOff == [stop |-> "length", calls |-> << >>, text |-> TRUE]
Uses(calls) == [stop |-> "toolUse", calls |-> calls, text |-> FALSE]
ACall(id, name, args) == [id |-> id, name |-> name, args |-> args]

Truncated(calls) == [stop |-> "length", calls |-> calls, text |-> TRUE]
Odd ==
  {Text, Empty, CutOff, Uses(<< >>),
   Truncated(<<ACall(c1, read, "object")>>),
   Uses(<<ACall(c1, read, "object"), ACall(c1, bash, "object")>>),
   Uses(<<ACall(c1, bash, "illTyped"), ACall(c2, read, "text")>>)}

OneTool == {Text, Uses(<<ACall(c1, bash, "object")>>),
            Uses(<<ACall(c1, read, "object")>>)}
TwoTools == {Text, Uses(<<ACall(c1, bash, "object"), ACall(c2, read, "object")>>)}
OnlyText == {Text}

===============================================================================
