------------------------------ MODULE Listening ------------------------------
(***************************************************************************)
(* How far a user is with one episode (handlers/podcasts.rs, database.rs): *)
(* players report their position every half minute, requests mark the      *)
(* episode as completed or not completed, and the end of playback is       *)
(* announced once, guarded by a key in Valkey (playback_notifications.rs). *)
(* Requests run their statements one by one; only the one that marks as    *)
(* not completed uses a transaction.                                       *)
(*                                                                         *)
(* Times are kept as what the code asks of them: is the history at most    *)
(* ten minutes old?  glitches names what else may happen in a behaviour.   *)
(***************************************************************************)
EXTENDS Naturals

CONSTANTS
  Callers,      \* the requests that may be handled at once
  Length,       \* the duration of the episode; positions are 0..Length
  Near,         \* the positions from here on are near the end
  AutoFrom,     \* those from here on complete the episode, if the user wants it
  GlitchSets    \* the sets of faults to consider

ListenFaults == {
  "overlap",   \* two reports overlap
  "again",     \* an episode that is completed, or being completed, is marked
  "web" }      \* the web player starts, and stores position 0

ASSUME ListenAssumption ==
  /\ Length \in Nat /\ Near \in 1..Length /\ AutoFrom \in 1..Length
  /\ \A set \in GlitchSets : set \subseteq ListenFaults

VARIABLES
  place,     \* UserEpisodeHistory.listenduration; 0 also stands for no row
  recent,    \* is its listendate within the last ten minutes?
  done,      \* Episodes.completed
  auto,      \* does the user want episodes to be completed near their end?
  call,      \* the request a caller makes
  told,      \* the key notif:playback:finish is there
  best,      \* ghost: the last position reported since the user set it back
  ended,     \* ghost: a player came near the end within the last ten minutes
  glitches   \* what else may go wrong

listenVars == <<place, recent, done, auto, call, told, best, ended, glitches>>

NoCall == [op |-> "none", pc |-> "start", pos |-> 0, before |-> 0, natural |-> FALSE]

ListenTypeOK ==
  /\ place \in 0..Length /\ best \in 0..Length
  /\ {recent, done, auto, told, ended} \subseteq BOOLEAN
  /\ call \in [Callers -> [op : {"none", "report", "mark", "bulk", "sync", "night", "unmark", "play"},
                           pc : {"start", "write", "complete", "history", "tell"},
                           pos : 0..Length, before : 0..Length, natural : BOOLEAN]]
  /\ glitches \in GlitchSets

ListenInit ==
  /\ place = 0 /\ best = 0
  /\ recent = FALSE /\ done = FALSE /\ told = FALSE /\ ended = FALSE
  /\ auto \in BOOLEAN
  /\ call = [c \in Callers |-> NoCall]
  /\ glitches \in GlitchSets

Glitch(fault) == fault \in glitches

AtRest == \A c \in Callers : call[c] = NoCall
Busy(ops) == \E c \in Callers : call[c].op \in ops

Make(c, r) == call[c] = NoCall /\ call' = [call EXCEPT ![c] = r]
Continue(c, pc) == call' = [call EXCEPT ![c].pc = pc]
Answer(c) == call' = [call EXCEPT ![c] = NoCall]

Completes(p) == auto /\ p >= AutoFrom

\* A player plays on from the position it reported last, or from an earlier one.
ReportPlace(c, p) ==
  /\ Glitch("overlap") \/ ~Busy({"report"})
  /\ Make(c, [NoCall EXCEPT !.op = "report", !.pos = p])
  /\ best' = IF p > best THEN p ELSE best
  /\ ended' = (ended \/ p >= Near \/ Completes(p))
  /\ UNCHANGED <<place, recent, done, auto, told, glitches>>

Marks == {"mark", "bulk", "sync"}

\* A client offers to mark what is not completed, alone or with many others; a
\* sync marks what was heard to the end elsewhere.
MarkDone(c, op) ==
  /\ Glitch("again") \/ (~done /\ ~Busy(Marks \cup {"unmark", "night"}))
  /\ Make(c, [NoCall EXCEPT !.op = op])
  /\ UNCHANGED <<place, recent, done, auto, told, best, ended, glitches>>

\* Every night what is near its end is marked, as by a request: it was found in
\* the history and is marked some time later.
MarkByNight(c) ==
  /\ ~done /\ place > 0 /\ Completes(place)
  /\ Glitch("again") \/ ~Busy(Marks \cup {"unmark"})
  /\ Make(c, [NoCall EXCEPT !.op = "night", !.pc = "complete"])
  /\ UNCHANGED <<place, recent, done, auto, told, best, ended, glitches>>

Unmark(c) ==
  /\ Glitch("again") \/ (done /\ ~Busy(Marks \cup {"unmark", "night"}))
  /\ Make(c, [NoCall EXCEPT !.op = "unmark"])
  /\ UNCHANGED <<place, recent, done, auto, told, best, ended, glitches>>

PlayInWeb(c) ==
  /\ Glitch("web")
  /\ Make(c, [NoCall EXCEPT !.op = "play"])
  /\ UNCHANGED <<place, recent, done, auto, told, best, ended, glitches>>

ReadPlace(c) ==
  /\ call[c].op = "report" /\ call[c].pc = "start"
  /\ call' = [call EXCEPT ![c].pc = "write", ![c].before = place]
  /\ UNCHANGED <<place, recent, done, auto, told, best, ended, glitches>>

\* Mutant: the history takes over whatever is reported.
AnyPosition(c) == TRUE

\* "Update only if new duration is greater than existing".
Further(c) == call[c].pos > call[c].before

WritePlace(c) ==
  /\ call[c].op = "report" /\ call[c].pc = "write"
  /\ place' = IF Further(c) THEN call[c].pos ELSE place
  /\ recent' = (recent \/ Further(c))
  /\ IF Completes(call[c].pos)
     THEN call' = [call EXCEPT ![c].pc = "complete", ![c].natural = TRUE]
     ELSE Answer(c)
  /\ UNCHANGED <<done, auto, told, best, ended, glitches>>

\* Mutant: the history is looked at after the mark has overwritten it.
LooksLate(c) == TRUE

\* Near the end, and a player was there a moment ago.
Natural(c) == recent /\ place >= Near

CheckNatural(c) ==
  /\ call[c].op = "mark" /\ call[c].pc = "start"
  /\ call' = [call EXCEPT ![c].pc = "complete", ![c].natural = Natural(c)]
  /\ UNCHANGED <<place, recent, done, auto, told, best, ended, glitches>>

\* Marking many, and a sync, go straight to the tables; marking many leaves the
\* history alone.
Complete(c) ==
  /\ call[c].pc = "complete" \/ (call[c].op \in {"bulk", "sync"} /\ call[c].pc = "start")
  /\ done' = TRUE
  /\ IF call[c].op = "bulk" THEN Answer(c) ELSE Continue(c, "history")
  /\ UNCHANGED <<place, recent, auto, told, best, ended, glitches>>

SetEnd(c) ==
  /\ call[c].pc = "history"
  /\ place' = Length /\ recent' = TRUE
  /\ IF call[c].natural THEN Continue(c, "tell") ELSE Answer(c)
  /\ UNCHANGED <<done, auto, told, best, ended, glitches>>

\* SET NX: who finds the key says nothing.
TellFinish(c) ==
  /\ call[c].pc = "tell"
  /\ told' = TRUE
  /\ Answer(c)
  /\ UNCHANGED <<place, recent, done, auto, best, ended, glitches>>

SetBack(c) ==
  /\ call[c].op = "unmark"
  /\ done' = FALSE /\ place' = 0 /\ recent' = TRUE
  /\ best' = 0
  /\ Answer(c)
  /\ UNCHANGED <<auto, told, ended, glitches>>

\* The history takes over the position the web player sends, which is 0.
StoreStart(c) ==
  /\ call[c].op = "play"
  /\ place' = 0 /\ recent' = TRUE
  /\ Answer(c)
  /\ UNCHANGED <<done, auto, told, best, ended, glitches>>

\* Ten minutes pass without a request; the key lives for a week.
PassTime ==
  /\ AtRest
  /\ recent' = FALSE /\ ended' = FALSE
  /\ told' \in {told, FALSE}
  /\ UNCHANGED <<place, done, auto, call, best, glitches>>

ListenNext ==
  \/ \E c \in Callers :
       \/ \E p \in 1..Length : ReportPlace(c, p)
       \/ \E op \in Marks : MarkDone(c, op)
       \/ MarkByNight(c) \/ Unmark(c) \/ PlayInWeb(c)
       \/ ReadPlace(c) \/ WritePlace(c) \/ CheckNatural(c) \/ Complete(c) \/ SetEnd(c)
       \/ TellFinish(c) \/ SetBack(c) \/ StoreStart(c)
  \/ PassTime

ListenSpec == ListenInit /\ [][ListenNext]_listenVars

-----------------------------------------------------------------------------
(* Properties                                                              *)

\* A player resumes from the history: when no request is in progress, no position
\* that was reported is lost, though marks and their undoing overlap with reports.
Resumes == glitches = {} /\ AtRest => best <= place

\* "natural playback only" (playback_notifications.rs:10-12): a mark that
\* announces the end follows a player that came near it within ten minutes,
\* whatever was marked, taken back and reported in between.
FinishHeard ==
  [][glitches = {} =>
       \A c \in Callers : call[c].op = "mark" /\ ~call[c].natural /\ call'[c].natural => ended]_listenVars
=============================================================================
