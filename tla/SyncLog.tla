------------------------------ MODULE SyncLog ------------------------------
(***************************************************************************)
(* The retained log of signed frames that late joiners are caught up from  *)
(* (crates/iroh-drop/src/state.rs) and the pages cut from it (sync.rs).    *)
(* A log is a record                                                       *)
(*    [frames  |-> sequence, oldest first,                                 *)
(*     start   |-> absolute cursor of the first one,                       *)
(*     unknown |-> unknown-kind frames retained over the session's life,   *)
(*     unknown_bytes |-> and their bytes].                                 *)
(***************************************************************************)
EXTENDS Integers, Sequences, FiniteSets, FiniteSetsExt

CONSTANTS
  Frames,               \* signed frames; a frame stands for its (author, id)
  Size,                 \* Size[f]: its bytes on the wire
  SYNC_LOG_CAP,         \* state.rs:61, 4096 in the code
  SYNC_LOG_MAX_BYTES,   \* state.rs:66
  MAX_UNKNOWN_FRAMES, UNKNOWN_FRAMES_MAX_BYTES,  \* state.rs:53,70
  MAX_RESPONSE_BYTES,   \* sync.rs:39
  None

ASSUME LogAssumption ==
  /\ Size \in [Frames -> Nat \ {0}]
  /\ SYNC_LOG_CAP \in Nat \ {0} /\ SYNC_LOG_MAX_BYTES \in Nat
  /\ MAX_UNKNOWN_FRAMES \in Nat /\ UNKNOWN_FRAMES_MAX_BYTES \in Nat
  \* MAX_MESSAGE_SIZE (64 KiB) is far below the page budget.
  /\ \A f \in Frames : Size[f] <= MAX_RESPONSE_BYTES
  /\ None \notin Nat

EmptyLog == [frames |-> <<>>, start |-> 0, unknown |-> 0, unknown_bytes |-> 0]

Bytes(s) ==
  LET sum[i \in 0..Len(s)] == IF i = 0 THEN 0 ELSE sum[i - 1] + Size[s[i]]
  IN  sum[Len(s)]

\* One past the absolute cursor of the newest frame.
End(l) == l.start + Len(l.frames)

---------------------------------------------------------------------------
\* How many of the oldest frames go to make room for f on both bounds.
Evictions(s, f) ==
  LET rest(k) == SubSeq(s, k + 1, Len(s))
  IN  Min({k \in 0..Len(s) :
             \/ k = Len(s)
             \/ /\ Len(rest(k)) < SYNC_LOG_CAP
                /\ Bytes(rest(k)) + Size[f] <= SYNC_LOG_MAX_BYTES})

\* Mutants of retain_frame: an eviction that does not advance the cursor base,
\* and a cap tested after the push.
retain_frame_static(l, f) ==
  [l EXCEPT !.frames =
     Append(SubSeq(l.frames, Evictions(l.frames, f) + 1, Len(l.frames)), f)]
retain_frame_late(l, f) ==
  IF Len(l.frames) <= SYNC_LOG_CAP THEN [l EXCEPT !.frames = Append(@, f)]
  ELSE [l EXCEPT !.frames = Append(Tail(@), f), !.start = @ + 1]

retain_frame(l, f) ==
  LET k == Evictions(l.frames, f)
  IN  [l EXCEPT !.frames = Append(SubSeq(l.frames, k + 1, Len(l.frames)), f),
                !.start = @ + k]

\* The budgets are spent, never refunded when such a frame is evicted.
retain_unknown_frame(l, f) ==
  IF \/ l.unknown >= MAX_UNKNOWN_FRAMES
     \/ l.unknown_bytes + Size[f] > UNKNOWN_FRAMES_MAX_BYTES
  THEN l
  ELSE retain_frame([l EXCEPT !.unknown = @ + 1, !.unknown_bytes = @ + Size[f]], f)

---------------------------------------------------------------------------
\* A page of at most max consecutive frames from an absolute cursor, clamped
\* to the retained window.
sync_frames(l, cursor, max) ==
  LET first == IF cursor > l.start THEN cursor - l.start ELSE 0
      last == IF first + max < Len(l.frames) THEN first + max ELSE Len(l.frames)
  IN  IF first >= Len(l.frames)
      THEN [frames |-> <<>>, end_cursor |-> End(l), caught_up |-> TRUE,
            oldest_cursor |-> l.start]
      ELSE [frames |-> SubSeq(l.frames, first + 1, last),
            end_cursor |-> l.start + last, caught_up |-> last = Len(l.frames),
            oldest_cursor |-> l.start]

\* SyncResponseV1
EmptyPage == [frames |-> <<>>, next_cursor |-> None, truncated |-> FALSE]

\* The longest prefix of the page within the byte budget, if only the empty.
WithinBudget(frames) ==
  Max({k \in 0..Len(frames) : k = 0 \/ Bytes(SubSeq(frames, 1, k)) <= MAX_RESPONSE_BYTES})

\* Mutant of page: the cursor is not moved back over the frames cut off.
page_uncut(l, cursor, max) ==
  LET p == sync_frames(l, cursor, max)
  IN  [frames |-> SubSeq(p.frames, 1, WithinBudget(p.frames)),
       next_cursor |-> IF p.caught_up THEN None ELSE p.end_cursor,
       truncated |-> cursor # 0 /\ cursor < p.oldest_cursor]

\* sync_page for a request it does not refuse.
page(l, cursor, max) ==
  LET p == sync_frames(l, cursor, max)
      kept == WithinBudget(p.frames)
      cut == Len(p.frames) - kept
  IN  [frames |-> SubSeq(p.frames, 1, kept),
       next_cursor |-> IF p.caught_up /\ cut = 0 THEN None ELSE p.end_cursor - cut,
       truncated |-> cursor # 0 /\ cursor < p.oldest_cursor]
=============================================================================
