---------------------------- MODULE ReplayWindow ----------------------------
(***************************************************************************)
(* The replay window of the recipient context: rc.replay_window, an array  *)
(* of uint64_t, oldest number at the left (index 1 here, 0 in C).  The     *)
(* three operators are the static functions of oscore2coap.c.              *)
(***************************************************************************)
EXTENDS Naturals, Sequences

\* The left-to-right scan of replay_check that is written behind the local
\* flag first_run: the branch that would report a replay.
ReplayScan(n, window) ==
  IF n > window[Len(window)] THEN "ok"
  ELSE IF n < window[1] THEN "replayed_packed_received"
  ELSE IF \E i \in DOMAIN window : n = window[i]
       THEN "replayed_packed_received"
       ELSE "ok"

\* Mutant: the scan is reached, also for the first number 0.
replay_check_Scans(n, window) == ReplayScan(n, window)

\* replay_check: first_run is a local variable that is TRUE on every call, so
\* the scan is never reached.
replay_check(n, window) ==
  LET first_run == TRUE
  IN  IF first_run THEN "ok" ELSE ReplayScan(n, window)

\* insert_sender_seq_number: everything up to the position moves one place to
\* the left (the leftmost number is lost) and n is written at the position.
insert_sender_seq_number(n, window, position) ==
  [i \in DOMAIN window |-> IF i < position THEN window[i + 1]
                           ELSE IF i = position THEN n
                           ELSE window[i]]

\* The places left of which n fits strictly between two neighbours.
Gaps(n, window) ==
  {i \in 1 .. (Len(window) - 1) : window[i] < n /\ n < window[i + 1]}

\* update_replay_window: the first gap, or else the rightmost place.
update_replay_window(n, window) ==
  LET gaps == Gaps(n, window)
      first == CHOOSE i \in gaps : \A j \in gaps : i <= j
  IN  insert_sender_seq_number(n, window,
                               IF gaps = {} THEN Len(window) ELSE first)
=============================================================================
