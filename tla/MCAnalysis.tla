----------------------------- MODULE MCAnalysis -----------------------------
(***************************************************************************)
(* Batches of three or four events on a small tree of processes, and       *)
(* answers with up to three entries.                                       *)
(***************************************************************************)
EXTENDS LlmDialogue

CONSTANTS a1, sh, curl, cron, u1, k1, geo

\* 1 is the root, 2 a shell of its, 3 the shell's child, and 4 a daemon; 9 is
\* nobody's.
SomeTree == [p \in {1, 2, 3, 4, 9} |->
               CASE p = 1 -> <<1>> [] p = 2 -> <<1, 2>> [] p = 3 -> <<1, 2, 3>>
                 [] p = 4 -> <<1, 4>> [] OTHER -> <<>>]

Ev(id, kind, pid, name, user, ip) ==
  [id |-> id, kind |-> kind, pid |-> pid, name |-> name, user |-> user, ip |-> ip, unusual |-> FALSE]

Spawn == Ev(1, "process", 3, curl, u1, None)
Connects == Ev(2, "network", 3, curl, None, a1)
Daemon == Ev(3, "network", 4, sh, None, a1)
Login == Ev(4, "authentication", NoPid, None, u1, a1)
Unattributed == Ev(5, "file", 0, None, None, None)
Routine == Ev(6, "process", 4, cron, u1, None)

Nothing == [spawned |-> [n \in {curl, sh, cron} |-> 0],
            connected |-> [c \in {curl, sh, cron} \X {a1} |-> 0],
            source |-> [a \in {a1} |-> 0], users |-> {}]

Said(form, id, evidence, chain, pids) ==
  [form |-> form, id |-> id, severity |-> 2, evidence |-> evidence, chain |-> chain, pids |-> pids]

Entries ==
  {Said("good", None, {2}, <<>>, {}), Said("good", None, {1, 3}, <<Step("ip", a1, 4)>>, {}),
   Said("good", 9, {3}, <<Step("process", sh, NoPid), Step("ip", a1, NoPid)>>, {3, 0}),
   Said("good", k1, {2}, <<>>, {}), [Said("good", k1, {4}, <<>>, {}) EXCEPT !.severity = 0],
   Said("odd", None, {1}, <<>>, {}), Said("untitled", None, {}, <<>>, {}),
   Said("alien", None, {}, <<>>, {})}

Answers == UNION {[1..n -> Entries] : n \in 0..2}
Single == UNION {[1..n -> Entries] : n \in 0..1}

Stored == (k1 :> [evidence |-> {1}, severity |-> 1, pids |-> {4}])

Inquiry(b, answers) == [batches |-> b, answers |-> answers, store |-> Stored, seen |-> Nothing]
Few == {<<>>, <<Said("good", None, {2}, <<>>, {})>>}

SomeInquiries ==
  [lineage |-> Inquiry(<<<<Spawn, Connects, Daemon, Routine>>>>, Answers),
   unattributed |-> Inquiry(<<<<Unattributed, Login, Connects>>>>, Single),
   connections |-> Inquiry(<<<<Connects, Connects>>, <<Connects, Login>>, <<Daemon, Connects>>>>, Few),
   processes |-> Inquiry(<<<<Spawn>>, <<Spawn, Login>>, <<Routine, Spawn>>>>, Few)]
=============================================================================
