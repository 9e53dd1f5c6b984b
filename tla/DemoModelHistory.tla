-------------------------- MODULE DemoModelHistory --------------------------
(***************************************************************************)
(* DemoModel, restricted to get, create and update, implements             *)
(* DemoHistory: the version rows of the table are the history.             *)
(***************************************************************************)
EXTENDS DemoModel

VersionRows == {e \in DOMAIN table : e[1] > 0}

Answered(p) ==
  LET c == call[p]
      item == IF c.op = "get" THEN c.latest ELSE Saved(c)
  IN  IF c.pc = "returned" /\ c.result = "ok"
        THEN [id |-> c.id, version |-> item.version, body |-> item.body]
        ELSE None

History == INSTANCE DemoHistory WITH
  Bodies <- Body,
  history <- [e \in VersionRows |-> table[e].body],
  busy <- {p \in Procs : call[p].pc \in Awaits},
  answer <- [p \in Procs |-> Answered(p)]

(* Whatever the interleaving of the invocations, stale reads, lost answers *)
(* and crashes included, callers see one append-only history per demo      *)
(* (demo.model.ts 89-102, 195-250 and 342-368).                            *)
ImplementsHistory == History!Spec

=============================================================================
