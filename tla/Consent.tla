------------------------------ MODULE Consent ------------------------------
(***************************************************************************)
(* From an incoming offer to a decision: the session pump, the consent     *)
(* task, the daemon's AskRouter, the connection of each UI client, and the *)
(* UIs themselves - the desktop app's bridge, and `watch` at its prompt    *)
(* (`watch --yes` is one whose person always says yes).  An offer is asked *)
(* about once, so the offer stands for the id of its question.  Offers are *)
(* by other peers: our own are not asked about.                            *)
(***************************************************************************)
EXTENDS Naturals, Sequences, SequencesExt, Vec

CONSTANTS
  Offers,
  Drops,
  DropOf,       \* the drop an offer arrives in
  Links,        \* drops whose link the user may paste
  Uis,          \* UI connections, each made once
  Kind,         \* Kind[u]: "app" or "watch"
  auto_accept,  \* the windowless-helper option
  PumpCap,      \* session events kept for a slow pump
  OutCap,       \* frames the outbound channel of a connection holds
  AskCap,       \* questions kept for a slow bridge
  MaxClicks,    \* bound: clicks on one card
  None

ASSUME ConsentAssumption ==
  /\ DropOf \in [Offers -> Drops] /\ Kind \in [Uis -> {"app", "watch"}]
  /\ auto_accept \in BOOLEAN
  /\ {PumpCap, OutCap, AskCap} \subseteq Nat \ {0}
  /\ Links \subseteq Drops /\ MaxClicks \in Nat
  /\ None \notin Offers \cup Uis \cup Drops \cup {"yes", "no"}

VARIABLES
  pumpq,     \* OfferReceived events the pump has not taken, oldest first
  ask,       \* ask[o]: where the consent task of offer o is
  target,    \* target[o]: the UI its question goes to
  pending,   \* questions an answer would still find
  slot,      \* slot[o]: the verdict in the oneshot channel, or None
  uis,       \* registered UIs, oldest first
  link,      \* link[u]: "new", "deaf", "up" or "gone"
  writer,    \* writer[u]: the writer task lives, so the channel is open
  out,       \* out[u]: frames queued for the client
  inbox,     \* inbox[u]: questions the client has not looked at
  cards,     \* cards[u]: questions shown to the person
  cmds,      \* cmds[u]: clicks the bridge has not handled
  ans,       \* ans[u]: answers on their way to the daemon
  busy,      \* busy[u]: the drop the bridge is joining, or None
  requested, \* requested[u]: drops asked for, still in their grace period
  wanted,    \* drops the user ever asked for (history)
  said,      \* said[o]: what the person said about offer o (history)
  reached    \* reached[o]: the first verdict that found its question open

askVars  == <<pumpq, ask, target, pending, slot, reached>>
connVars == <<uis, link, writer, out>>
uiVars   == <<inbox, cards, cmds, ans, busy, requested, wanted, said>>
vars     == <<askVars, connVars, uiVars>>

Init ==
  /\ pumpq = <<>> /\ pending = {} /\ uis = <<>> /\ wanted = {}
  /\ ask = [o \in Offers |-> "none"]
  /\ target = [o \in Offers |-> None] /\ slot = [o \in Offers |-> None]
  /\ said = [o \in Offers |-> <<>>] /\ reached = [o \in Offers |-> None]
  /\ link = [u \in Uis |-> "new"] /\ writer = [u \in Uis |-> FALSE]
  /\ out = [u \in Uis |-> <<>>] /\ inbox = [u \in Uis |-> <<>>]
  /\ cards = [u \in Uis |-> {}] /\ cmds = [u \in Uis |-> <<>>]
  /\ ans = [u \in Uis |-> <<>>]
  /\ busy = [u \in Uis |-> None] /\ requested = [u \in Uis |-> {}]

\* A broadcast channel of capacity cap: the oldest entry makes room.
Broadcast(q, x, cap) == Append(IF Len(q) = cap THEN Tail(q) ELSE q, x)

Go(o, stage) == ask' = [ask EXCEPT ![o] = stage]

\* ask returns: its channel and its copy of the sender are dropped.
Done(o) == target' = [target EXCEPT ![o] = None] /\ slot' = [slot EXCEPT ![o] = None]

---------------------------------------------------------------------------
(* The session pump and the consent task. *)

\* The session announces an offer; a pump that lags loses the oldest.
OfferReceived(o) ==
  /\ ask[o] = "none"
  /\ pumpq' = Broadcast(pumpq, o, PumpCap)
  /\ ask' = [x \in Offers |->
               IF x = o THEN "queued"
               ELSE IF Len(pumpq) = PumpCap /\ x = Head(pumpq) THEN "lost" ELSE ask[x]]
  /\ UNCHANGED <<target, pending, slot, reached, connVars, uiVars>>

\* spawn_pump, on_session_event: hand the offer to a consent task.
Pump ==
  /\ pumpq # <<>>
  /\ pumpq' = Tail(pumpq)
  /\ Go(Head(pumpq), "check")
  /\ UNCHANGED <<target, pending, slot, reached, connVars, uiVars>>

is_closed(u) == ~writer[u]
forget_closed(q) == retain(q, {u \in Uis : ~is_closed(u)})
has_live_ui == \E u \in ToSet(uis) : ~is_closed(u)

\* spawn_consent: auto_accept answers only when there is no UI to ask.
Check(o) ==
  /\ ask[o] = "check"
  /\ Go(o, IF auto_accept /\ ~has_live_ui THEN "auto" ELSE "pick")
  /\ UNCHANGED <<pumpq, target, pending, slot, reached, connVars, uiVars>>

\* ask, up to its first await: forget_closed, choose the UI attached last,
\* enter the question.  Without a UI the answer is no.
Pick(o) ==
  LET open == forget_closed(uis)
  IN  /\ ask[o] = "pick"
      /\ uis' = open
      /\ IF open = <<>>
         THEN Go(o, "declined") /\ UNCHANGED <<target, pending>>
         ELSE /\ target' = [target EXCEPT ![o] = Last(open)]
              /\ pending' = pending \cup {o}
              /\ Go(o, "send")
      /\ UNCHANGED <<pumpq, slot, reached, link, writer, out, uiVars>>

\* Mutant of SendAsk: a failed send that leaves the question behind.
SendAsk_leaky(o) ==
  LET u == target[o]
  IN  /\ ask[o] = "send"
      /\ IF is_closed(u)
         THEN Go(o, "declined") /\ Done(o) /\ UNCHANGED <<pending, out>>
         ELSE /\ Len(out[u]) < OutCap
              /\ out' = [out EXCEPT ![u] = Append(@, o)]
              /\ Go(o, "wait") /\ UNCHANGED <<pending, target, slot>>
      /\ UNCHANGED <<pumpq, reached, uis, link, writer, uiVars>>

\* target.send(frame).await: waits for room with no time limit.
SendAsk(o) ==
  LET u == target[o]
  IN  /\ ask[o] = "send"
      /\ IF is_closed(u)
         THEN Go(o, "declined") /\ Done(o) /\ pending' = pending \ {o} /\ UNCHANGED out
         ELSE /\ Len(out[u]) < OutCap
              /\ out' = [out EXCEPT ![u] = Append(@, o)]
              /\ Go(o, "wait") /\ UNCHANGED <<pending, target, slot>>
      /\ UNCHANGED <<pumpq, reached, uis, link, writer, uiVars>>

\* The answer is there: only an explicit yes starts the fetch.
Decide(o) ==
  /\ ask[o] = "wait" /\ slot[o] # None
  /\ Go(o, IF slot[o] = "yes" THEN "fetch" ELSE "declined")
  /\ pending' = pending \ {o}
  /\ Done(o)
  /\ UNCHANGED <<pumpq, reached, connVars, uiVars>>

\* Mutant of Timeout: the timer is looked at before the channel.
Timeout_first(o) ==
  /\ ask[o] = "wait"
  /\ Go(o, "expired")
  /\ UNCHANGED <<pumpq, target, pending, slot, reached, connVars, uiVars>>

\* CONSENT_TIMEOUT; the timer is looked at after the channel ...
Timeout(o) ==
  /\ ask[o] = "wait" /\ slot[o] = None
  /\ Go(o, "expired")
  /\ UNCHANGED <<pumpq, target, pending, slot, reached, connVars, uiVars>>

\* ... and the question is forgotten a moment later.
Forget(o) ==
  /\ ask[o] = "expired"
  /\ pending' = pending \ {o}
  /\ Go(o, "declined")
  /\ Done(o)
  /\ UNCHANGED <<pumpq, reached, connVars, uiVars>>

\* Mutant of Consider: a timeout for questions whose UI is still
\* registered only.
Consider_registered(o) ==
  \/ Check(o) \/ Pick(o) \/ SendAsk(o) \/ Decide(o) \/ Forget(o)
  \/ target[o] \in ToSet(uis) /\ Timeout(o)

Consider(o) == Check(o) \/ Pick(o) \/ SendAsk(o) \/ Decide(o) \/ Timeout(o) \/ Forget(o)

---------------------------------------------------------------------------
(* Connections. *)

\* attach with the ui role; register_ui.  The app starts listening for
\* questions only once it has refreshed its status; `watch` hears at once.
Attach(u) ==
  /\ link[u] = "new"
  /\ link' = [link EXCEPT ![u] = IF Kind[u] = "app" THEN "deaf" ELSE "up"]
  /\ writer' = [writer EXCEPT ![u] = TRUE]
  /\ uis' = Append(uis, u)
  /\ UNCHANGED <<askVars, out, uiVars>>

\* client.asks() in the bridge.
Listen(u) ==
  /\ link[u] = "deaf"
  /\ link' = [link EXCEPT ![u] = "up"]
  /\ UNCHANGED <<askVars, uis, writer, out, uiVars>>

Reply(u, o, verdict) ==
  ans' = [ans EXCEPT ![u] = Append(@, [id |-> o, verdict |-> verdict])]

\* The client's reader gets question o: the app queues it for its bridge,
\* unless that is not listening yet; the handler of `watch` prompts.
Hear(u, o) ==
  IF Kind[u] = "app"
  THEN /\ inbox' = [inbox EXCEPT ![u] = IF link[u] = "deaf" THEN @ ELSE Broadcast(@, o, AskCap)]
       /\ UNCHANGED cards
  ELSE cards' = [cards EXCEPT ![u] = @ \cup {o}] /\ UNCHANGED inbox

\* spawn_writer and the client's reader take a question.
Write(u) ==
  /\ writer[u] /\ link[u] # "gone" /\ out[u] # <<>>
  /\ out' = [out EXCEPT ![u] = Tail(@)]
  /\ Hear(u, Head(out[u]))
  /\ UNCHANGED <<askVars, uis, link, writer, cmds, ans, busy, requested, wanted, said>>

\* The writer has a question, or an event of the forwarder, to write, finds
\* the socket gone and ends, and the channel with it.  (Events that a living
\* client reads change nothing here and are left out.)
WriteFails(u) ==
  /\ writer[u] /\ link[u] = "gone" /\ (out[u] # <<>> \/ u \in ToSet(uis))
  /\ writer' = [writer EXCEPT ![u] = FALSE]
  /\ out' = [out EXCEPT ![u] = <<>>]
  /\ UNCHANGED <<askVars, uis, link, uiVars>>

\* The client process ends; some of its answers may not have left it.
Leave(u) ==
  /\ link[u] \in {"deaf", "up"}
  /\ link' = [link EXCEPT ![u] = "gone"]
  /\ \E k \in 0..Len(ans[u]) : ans' = [ans EXCEPT ![u] = SubSeq(@, 1, k)]
  /\ inbox' = [inbox EXCEPT ![u] = <<>>] /\ cards' = [cards EXCEPT ![u] = {}]
  /\ cmds' = [cmds EXCEPT ![u] = <<>>]
  /\ busy' = [busy EXCEPT ![u] = None] /\ requested' = [requested EXCEPT ![u] = {}]
  /\ UNCHANGED <<askVars, uis, writer, out, wanted, said>>

unregister_ui(u) == retain(uis, Uis \ {u})

\* The attach loop sees the end of its input.
Detach(u) ==
  /\ link[u] = "gone" /\ u \in ToSet(uis) /\ ans[u] = <<>>
  /\ uis' = forget_closed(unregister_ui(u))
  /\ UNCHANGED <<askVars, link, writer, out, uiVars>>

\* The attach loop takes an answer; one whose question is forgotten has no
\* effect, and neither has one whose asker no longer looks.
answer(u) ==
  /\ ans[u] # <<>>
  /\ LET a == Head(ans[u])
     IN  /\ pending' = pending \ {a.id}
         /\ slot' = IF a.id \in pending /\ ask[a.id] = "wait" THEN [slot EXCEPT ![a.id] = a.verdict] ELSE slot
         /\ reached' = IF reached[a.id] = None /\ ask[a.id] = "wait"
                       THEN [reached EXCEPT ![a.id] = a.verdict] ELSE reached
  /\ ans' = [ans EXCEPT ![u] = Tail(@)]
  /\ UNCHANGED <<pumpq, ask, target, connVars, inbox, cards, cmds, busy, requested,
                 wanted, said>>

---------------------------------------------------------------------------
(* UI clients. *)

\* Mutant of Solicited: any recent request counts as consent for any
\* drop.
Solicited_any(u, o) == requested[u] # {}

\* Offers of a drop the user has just asked for are consented to already.
Solicited(u, o) == DropOf[o] \in requested[u]

\* The bridge, when it is not in the middle of a command, looks at a
\* question: answer it, or show it.
TakeAsk(u) ==
  /\ inbox[u] # <<>> /\ busy[u] = None
  /\ LET o == Head(inbox[u])
     IN  IF Solicited(u, o)
         THEN Reply(u, o, "yes") /\ UNCHANGED cards
         ELSE cards' = [cards EXCEPT ![u] = @ \cup {o}] /\ UNCHANGED ans
  /\ inbox' = [inbox EXCEPT ![u] = Tail(@)]
  /\ UNCHANGED <<askVars, connVars, cmds, busy, requested, wanted, said>>

\* The person clicks on a card of the app, which stays until the bridge has
\* handled the click.
Click(u, o, verdict) ==
  /\ Kind[u] = "app" /\ o \in cards[u] /\ Len(said[o]) < MaxClicks
  /\ cmds' = [cmds EXCEPT ![u] = Append(@, [id |-> o, verdict |-> verdict])]
  /\ said' = [said EXCEPT ![o] = Append(@, verdict)]
  /\ UNCHANGED <<askVars, connVars, inbox, cards, ans, busy, requested, wanted>>

\* handle_cmd, Cmd::Answer
HandleAnswer(u) ==
  /\ cmds[u] # <<>> /\ busy[u] = None
  /\ LET a == Head(cmds[u])
     IN  /\ Reply(u, a.id, a.verdict)
         /\ cards' = [cards EXCEPT ![u] = @ \ {a.id}]
  /\ cmds' = [cmds EXCEPT ![u] = Tail(@)]
  /\ UNCHANGED <<askVars, connVars, inbox, busy, requested, wanted, said>>

\* The prompt of `watch`; questions wait for the terminal in any order.  With
\* --yes nobody is asked: the command line was the answer.
Prompt(u, o, verdict) ==
  /\ Kind[u] = "watch" /\ o \in cards[u]
  /\ Reply(u, o, verdict)
  /\ said' = [said EXCEPT ![o] = Append(@, verdict)]
  /\ cards' = [cards EXCEPT ![u] = @ \ {o}]
  /\ UNCHANGED <<askVars, connVars, inbox, cmds, busy, requested, wanted>>

\* The app's prune timer removes an expired card.
Prune(u, o) ==
  /\ Kind[u] = "app" /\ o \in cards[u]
  /\ cards' = [cards EXCEPT ![u] = @ \ {o}]
  /\ UNCHANGED <<askVars, connVars, inbox, cmds, ans, busy, requested, wanted, said>>

\* handle_cmd, Cmd::Receive: do_receive joins and lists for a while, during
\* which the bridge does nothing else (each link once) ...
Receive(u, d) ==
  /\ Kind[u] = "app" /\ link[u] = "up" /\ busy[u] = None
  /\ d \notin wanted
  /\ busy' = [busy EXCEPT ![u] = d] /\ wanted' = wanted \cup {d}
  /\ UNCHANGED <<askVars, connVars, inbox, cards, cmds, ans, requested, said>>

\* ... and then either fails or opens the grace period.
ReceiveEnds(u) ==
  /\ busy[u] # None
  /\ \/ requested' = [requested EXCEPT ![u] = @ \cup {busy[u]}]
     \/ UNCHANGED requested
  /\ busy' = [busy EXCEPT ![u] = None]
  /\ UNCHANGED <<askVars, connVars, inbox, cards, cmds, ans, wanted, said>>

\* RECEIVE_GRACE is over.
GraceEnds(u, d) ==
  /\ d \in requested[u]
  /\ requested' = [requested EXCEPT ![u] = @ \ {d}]
  /\ UNCHANGED <<askVars, connVars, inbox, cards, cmds, ans, busy, wanted, said>>

---------------------------------------------------------------------------
Verdicts == {"yes", "no"}

Next ==
  \/ \E o \in Offers : OfferReceived(o) \/ Consider(o)
  \/ Pump
  \/ \E u \in Uis :
       \/ Attach(u) \/ Listen(u) \/ Write(u) \/ WriteFails(u) \/ Leave(u) \/ Detach(u)
       \/ answer(u) \/ TakeAsk(u) \/ HandleAnswer(u) \/ ReceiveEnds(u)
       \/ \E d \in Links : Receive(u, d) \/ GraceEnds(u, d)
       \/ \E o \in Offers :
            Prune(u, o) \/ \E v \in Verdicts : Prompt(u, o, v) \/ Click(u, o, v)

Spec == Init /\ [][Next]_vars

\* The daemon's tasks are polled, timers fire, and a client that runs keeps
\* reading (its reader never waits), while a question for one that is gone
\* cannot be written.  People may never answer, and need not leave.
Fairness ==
  /\ WF_vars(Pump)
  /\ \A o \in Offers : WF_vars(Consider(o))
  /\ \A u \in Uis : WF_vars(Write(u)) /\ WF_vars(out[u] # <<>> /\ WriteFails(u))
LiveSpec == Spec /\ Fairness

---------------------------------------------------------------------------
Stages == {"none", "queued", "lost", "check", "auto", "pick", "send", "wait",
           "expired", "fetch", "declined"}
SeqOver(q, S) == ToSet(q) \subseteq S

\* Types and bounds; the pending map holds no question whose asker is gone,
\* on any path out of ask: a leaked entry would stay for the daemon's life.
TypeOK ==
  /\ SeqOver(pumpq, Offers) /\ Len(pumpq) <= PumpCap
  /\ ask \in [Offers -> Stages] /\ target \in [Offers -> Uis \cup {None}]
  /\ pending \subseteq {o \in Offers : ask[o] \in {"send", "wait", "expired"}}
  /\ slot \in [Offers -> Verdicts \cup {None}] /\ reached \in [Offers -> Verdicts \cup {None}]
  /\ SeqOver(uis, Uis) /\ IsInjective(uis)
  /\ link \in [Uis -> {"new", "deaf", "up", "gone"}] /\ writer \in [Uis -> BOOLEAN]
  /\ \A u \in Uis :
       /\ SeqOver(out[u], Offers) /\ Len(out[u]) <= OutCap
       /\ SeqOver(inbox[u], Offers) /\ Len(inbox[u]) <= AskCap
       /\ cards[u] \subseteq Offers
       /\ \A a \in ToSet(cmds[u]) \cup ToSet(ans[u]) : a.id \in Offers /\ a.verdict \in Verdicts
       /\ busy[u] \in Drops \cup {None} /\ requested[u] \subseteq wanted
  /\ wanted \subseteq Drops
  /\ \A o \in Offers : SeqOver(said[o], Verdicts)

\* "Silence is never consent" (docs/daemon-api.md:275): bytes are fetched
\* because the first thing the person said about this offer was yes, or they
\* had asked for its drop and said nothing, or auto_accept is on - whatever
\* the order in which clicks, timeouts, disconnections and other offers'
\* answers arrive.
ConsentHonest ==
  \A o \in Offers :
    /\ ask[o] = "fetch" =>
         \/ said[o] # <<>> /\ Head(said[o]) = "yes"
         \/ said[o] = <<>> /\ DropOf[o] \in wanted
    /\ ask[o] = "auto" => auto_accept /\ said[o] = <<>>

\* An answer that gets to the daemon while the question is open decides it:
\* neither the timer nor an answer to another question takes its place.
AnswerDecides ==
  \A o \in Offers :
    reached[o] # None /\ ask[o] # "wait"
      => ask[o] = IF reached[o] = "yes" THEN "fetch" ELSE "declined"

\* Every offer comes to a decision, except one the pump lost to lag; UIs
\* that vanish, are not listening yet or never answer end in a refusal.
OfferDecided ==
  \A o \in Offers :
    ask[o] = "queued" ~> ask[o] \in {"auto", "fetch", "declined", "lost"}
=============================================================================
