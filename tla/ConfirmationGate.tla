--------------------------- MODULE ConfirmationGate ---------------------------
(***************************************************************************)
(* The confirmation gate in front of sensitive tool calls: the hook        *)
(* (src/src/fim_one/core/hooks/feishu_gate_hook.py, run by                 *)
(* core/agent/hooks.py), the two surfaces on which people answer           *)
(* (web/api/confirmations.py, web/api/channels.py) and the sweeper of old  *)
(* requests (core/channels/expiry.py).                                     *)
(*                                                                         *)
(* The calls are those of one agent turn, which runs their hooks in        *)
(* parallel.  Time is abstracted: a deadline may pass at any poll.  Who    *)
(* may answer is settled before a reply is a member of Replies.            *)
(***************************************************************************)
CONSTANTS
  Calls,     \* tool calls of the turn
  Sensitive, \* those of an agent that it or the tool wants confirmed
  Replies,   \* clicks of people entitled to answer
  Portal,    \* those that come through the portal, not a Feishu card
  Settings,  \* what the agent's row may say when a hook reads it
  Faults     \* what may go wrong

ASSUME GateAssumption ==
  /\ Sensitive \subseteq Calls /\ Portal \subseteq Replies
  /\ Settings \subseteq [mode : {"channel_only", "inline_only", "auto"},
                         channel : BOOLEAN] \* a usable Feishu channel is bound
  /\ Faults \subseteq {"raise", "undelivered", "abort"}

VARIABLES
  call,   \* where the hook of each call is
  row,    \* status of each call's ConfirmationRequest
  cards,  \* the calls whose request went to the Feishu chat
  reply,  \* what became of each click
  target  \* the call each click is about

vars == <<call, row, cards, reply, target>>

Decisions == {"approved", "rejected"}
Over == {"allowed", "denied", "aborted"}

TypeOK ==
  /\ call \in [Calls -> {"new", "sending", "polling", "late", "expiring"}
                          \cup Over]
  /\ row \in [Calls -> {"absent", "pending", "expired"} \cup Decisions]
  /\ cards \subseteq Calls
  /\ reply \in [Replies -> {"unsent", "checked", "conflict"} \cup Decisions]
  /\ target \in [Replies -> Calls]

Init ==
  /\ call = [c \in Calls |-> "new"]
  /\ row = [c \in Calls |-> "absent"]
  /\ cards = {}
  /\ reply = [q \in Replies |-> "unsent"]
  /\ target \in [Replies -> Sensitive]
-----------------------------------------------------------------------------
(* The hook.                                                               *)

Move(c, from, to) == call[c] = from /\ call' = [call EXCEPT ![c] = to]

\* "if not requires: return HookResult()"
Skip(c) ==
  /\ c \notin Sensitive /\ Move(c, "new", "allowed")
  /\ UNCHANGED <<row, cards, reply, target>>

\* An agent that insists on its channel has none, or the agent is gone.
NoChannel(c, s) ==
  /\ c \in Sensitive /\ s.mode = "channel_only" /\ ~s.channel
  /\ Move(c, "new", "denied")
  /\ UNCHANGED <<row, cards, reply, target>>

\* Whether a card goes to the chat, or the portal alone shows the request.
ByCard(s) == s.channel /\ s.mode # "inline_only"

\* The pending row is committed before anyone is told of it.
Ask(c, s) ==
  /\ c \in Sensitive
  /\ s.mode = "channel_only" => s.channel
  /\ Move(c, "new", IF ByCard(s) THEN "sending" ELSE "polling")
  /\ row' = [row EXCEPT ![c] = "pending"]
  /\ cards' = IF ByCard(s) THEN cards \cup {c} ELSE cards
  /\ UNCHANGED <<reply, target>>

Send(c) ==
  Move(c, "sending", "polling") /\ UNCHANGED <<row, cards, reply, target>>

\* The card is reported as undelivered; its row stays pending.
SendFails(c) ==
  /\ "undelivered" \in Faults /\ Move(c, "sending", "denied")
  /\ UNCHANGED <<row, cards, reply, target>>

Poll(c) ==
  /\ row[c] \in Decisions
  /\ Move(c, "polling", IF row[c] = "approved" THEN "allowed" ELSE "denied")
  /\ UNCHANGED <<row, cards, reply, target>>

\* Mutant of LastPoll: the deadline starts again at every poll.
LastPollRestarts(c) ==
  row[c] \notin Decisions /\ call[c] = "polling" /\ UNCHANGED vars

\* A poll after the deadline finds no answer...
LastPoll(c) ==
  /\ row[c] \notin Decisions /\ Move(c, "polling", "late")
  /\ UNCHANGED <<row, cards, reply, target>>

\* ... _mark_expired reads the row once more...
ExpireRead(c) ==
  /\ Move(c, "late", IF row[c] = "pending" THEN "expiring" ELSE "denied")
  /\ UNCHANGED <<row, cards, reply, target>>

\* ... and writes it, by primary key only.
ExpireWrite(c) ==
  /\ Move(c, "expiring", "denied")
  /\ row' = [row EXCEPT ![c] = "expired"]
  /\ UNCHANGED <<cards, reply, target>>

\* Mutant of Raises: the failing hook lets the call through.
RaisesOpen(c) ==
  /\ "raise" \in Faults /\ call[c] \notin Over
  /\ call' = [call EXCEPT ![c] = "allowed"]
  /\ UNCHANGED <<row, cards, reply, target>>

\* The database fails: Hook.execute blocks the call.  _mark_expired swallows
\* its own failure, to the same effect.
Raises(c) ==
  /\ "raise" \in Faults /\ call[c] \notin Over
  /\ call' = [call EXCEPT ![c] = "denied"]
  /\ UNCHANGED <<row, cards, reply, target>>

\* The turn is stopped, its client leaves or its process dies: the tasks of
\* all its calls end where they are.
Abort ==
  /\ "abort" \in Faults /\ \E c \in Calls : call[c] \notin Over
  /\ call' = [c \in Calls |-> IF call[c] \in Over THEN call[c] ELSE "aborted"]
  /\ UNCHANGED <<row, cards, reply, target>>
-----------------------------------------------------------------------------
(* The people and the sweeper.                                             *)

\* respond_to_confirmation looks at the row before it tries.
Check(q) ==
  /\ q \in Portal /\ reply[q] = "unsent" /\ row[target[q]] # "absent"
  /\ reply' = [reply EXCEPT ![q] =
                 IF row[target[q]] = "pending" THEN "checked" ELSE "conflict"]
  /\ UNCHANGED <<call, row, cards, target>>

\* The portal goes on from its check, a Feishu click from the card.
CanApply(q) ==
  IF q \in Portal THEN reply[q] = "checked"
                  ELSE reply[q] = "unsent" /\ target[q] \in cards

\* apply_confirmation_decision: one conditional update.
Apply(q, d) ==
  LET c == target[q]
  IN  /\ CanApply(q)
      /\ IF row[c] = "pending"
         THEN row' = [row EXCEPT ![c] = d] /\ reply' = [reply EXCEPT ![q] = d]
         ELSE reply' = [reply EXCEPT ![q] = "conflict"] /\ UNCHANGED row
      /\ UNCHANGED <<call, cards, target>>

\* A row is a day old only long after its hook, which waits two minutes.
Stale == {c \in Calls : row[c] = "pending" /\ call[c] \in Over}

\* Mutant of Sweep: only requests still awaited expire.
SweepYoung ==
  /\ \E c \in Calls : row[c] = "pending" /\ call[c] \notin Over
  /\ row' = [c \in Calls |-> IF row[c] = "pending" /\ call[c] \notin Over
                             THEN "expired" ELSE row[c]]
  /\ UNCHANGED <<call, cards, reply, target>>

\* ConfirmationRequestExpirer.sweep: one conditional update.
Sweep ==
  /\ Stale # {}
  /\ row' = [c \in Calls |-> IF c \in Stale THEN "expired" ELSE row[c]]
  /\ UNCHANGED <<call, cards, reply, target>>
-----------------------------------------------------------------------------
Hook(c) ==
  \/ Skip(c)
  \/ \E s \in Settings : NoChannel(c, s) \/ Ask(c, s)
  \/ Send(c) \/ SendFails(c) \/ Poll(c) \/ LastPoll(c)
  \/ ExpireRead(c) \/ ExpireWrite(c)

Answer(q) == Check(q) \/ \E d \in Decisions : Apply(q, d)

Next ==
  \/ \E c \in Calls : Hook(c) \/ Raises(c)
  \/ \E q \in Replies : Answer(q)
  \/ Abort
  \/ Sweep

Spec == Init /\ [][Next]_vars

\* A hook polls until its deadline, and the sweeper runs for ever; nobody has
\* to answer.
FairSpec == Spec /\ (\A c \in Calls : WF_vars(Hook(c))) /\ WF_vars(Sweep)
=============================================================================
