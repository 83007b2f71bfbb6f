---------------------------- MODULE Server_proofs -----------------------------
(***************************************************************************)
(* Theorems about what the server keeps beside its subscriptions and its   *)
(* queue.  A notification is kept until it is dismissed, however marks and *)
(* removals meet (Notices); a position survives what races it, and the end *)
(* of an episode is announced only to a player that came near (Listening); *)
(* devices (NowPlaying) and backups (Backups) have their types.  MCServer  *)
(* puts these beside tasks and the setup of the database; the last section *)
(* shows that each part behaves there as it does alone.                    *)
(***************************************************************************)
EXTENDS MCServer, TaskBoard_proofs, Migrations_proofs, SequenceTheorems, FiniteSetTheorems,
  WellFoundedInduction

-----------------------------------------------------------------------------
(* Notifications (Notices)                                                 *)

\* One that is not pushed yet is known to nobody.
Unknown(n) ==
  push[n] # "done" =>
    /\ n \notin listed \cup answered \cup lapsed
    /\ mark[n] = Resting /\ dismiss[n] = Resting /\ clear[n] = Resting /\ listing[n] = Resting
    /\ push[n] = "index" => note[n] # Missing

\* One that was answered does not count as unread, or its deletion is what comes
\* next: all that may be written after that is the copy of a mark, and it is read.
Gone(n) == n \in answered => note[n] # "unread" \/ clear[n] = "delete"

\* One that is live is left alone by every removal on its way.
Live(n) ==
  push[n] = "done" /\ n \notin answered \cup lapsed =>
    /\ note[n] # Missing /\ n \in listed
    /\ dismiss[n] = Resting /\ clear[n] \in {Resting, "check"} /\ listing[n] \in {Resting, "get"}

NoticeInv(n) == Unknown(n) /\ Gone(n) /\ Live(n)
NoticeIInv == NoticeTypeOK /\ \A n \in Notes : NoticeInv(n)

-----------------------------------------------------------------------------

LEMMA NoticeTypes == NoticeTypeOK /\ [NoticeNext]_noticeVars => NoticeTypeOK'
  <1> SUFFICES ASSUME NoticeTypeOK, [NoticeNext]_noticeVars PROVE NoticeTypeOK'
    OBVIOUS
  <1> USE DEF NoticeTypeOK, Resting
  <1>1. ASSUME NEW n \in Notes, StartPush(n) PROVE NoticeTypeOK'
    BY <1>1 DEF StartPush, SaveOrder
  <1>2. ASSUME NEW n \in Notes, Push(n) PROVE NoticeTypeOK'
    BY <1>2 DEF Push, Save, Saved, SaveOrder
  <1>3. ASSUME NEW n \in Notes, Mark(n) PROVE NoticeTypeOK'
    BY <1>3 DEF Mark, SaveOrder
  <1>4. ASSUME NEW n \in Notes, SaveMark(n) PROVE NoticeTypeOK'
    BY <1>4 DEF SaveMark, Save, Saved, SaveOrder
  <1>5. ASSUME NEW n \in Notes, Dismiss(n) PROVE NoticeTypeOK'
    BY <1>5 DEF Dismiss, Without
  <1>6. ASSUME NEW n \in Notes, Check(n) PROVE NoticeTypeOK'
    BY <1>6 DEF Check
  <1>7. ASSUME NEW n \in Notes, Look(n) PROVE NoticeTypeOK'
    BY <1>7 DEF Look
  <1>8. ASSUME NEW n \in Notes, Delete(n) PROVE NoticeTypeOK'
    BY <1>8 DEF Delete, Without
  <1>9. ASSUME NEW n \in Notes, Unlist(n) PROVE NoticeTypeOK'
    BY <1>9 DEF Unlist
  <1>10. ASSUME NEW n \in Notes, Lapse(n) \/ ExpireNotice(n) PROVE NoticeTypeOK'
    BY <1>10 DEF Lapse, ExpireNotice, Without
  <1>11. CASE ListNotices
    BY <1>11 DEF ListNotices
  <1>12. ASSUME NEW readOnly \in BOOLEAN, Clear(readOnly) PROVE NoticeTypeOK'
    BY <1>12 DEF Clear
  <1>13. CASE UNCHANGED noticeVars
    BY <1>13 DEF noticeVars
  <1> QED
    BY <1>1, <1>2, <1>3, <1>4, <1>5, <1>6, <1>7, <1>8, <1>9, <1>10, <1>11, <1>12, <1>13 DEF NoticeNext

\* A step that is about one notification leaves the others as they are.
LEMMA OthersKept ==
  ASSUME NEW n \in Notes, \A k \in Notes : NoticeInv(k), NoticeInv(n)',
         \A k \in Notes \ {n} :
           /\ note'[k] = note[k] /\ push'[k] = push[k] /\ mark'[k] = mark[k]
           /\ dismiss'[k] = dismiss[k] /\ clear'[k] = clear[k] /\ listing'[k] = listing[k]
           /\ (k \in listed' <=> k \in listed) /\ (k \in lapsed' <=> k \in lapsed)
           /\ (k \in answered' <=> k \in answered)
  PROVE \A k \in Notes : NoticeInv(k)'
  BY DEF NoticeInv, Unknown, Gone, Live, Removing

LEMMA NoticeSteps ==
  ASSUME NoticeTypeOK, \A n \in Notes : NoticeInv(n), [NoticeNext]_noticeVars
  PROVE \A n \in Notes : NoticeInv(n)'
  <1> USE DEF NoticeTypeOK, Resting
  <1>1. ASSUME NEW n \in Notes, StartPush(n) PROVE \A k \in Notes : NoticeInv(k)'
    <2>1. NoticeInv(n)'
      BY <1>1 DEF StartPush, SaveOrder, NoticeInv, Unknown, Gone, Live, Removing
    <2> QED
      BY <1>1, <2>1, OthersKept DEF StartPush
  <1>2. ASSUME NEW n \in Notes, Push(n) PROVE \A k \in Notes : NoticeInv(k)'
    <2>1. NoticeInv(n)'
      BY <1>2, NoticeAssumption DEF Push, Save, Saved, SaveOrder, NoticeInv, Unknown, Gone, Live, Removing
    <2> QED
      BY <1>2, <2>1, OthersKept DEF Push, Save
  <1>3. ASSUME NEW n \in Notes, Mark(n) PROVE \A k \in Notes : NoticeInv(k)'
    <2>1. NoticeInv(n)'
      BY <1>3 DEF Mark, SaveOrder, NoticeInv, Unknown, Gone, Live, Removing
    <2> QED
      BY <1>3, <2>1, OthersKept DEF Mark
  <1>4. ASSUME NEW n \in Notes, SaveMark(n) PROVE \A k \in Notes : NoticeInv(k)'
    <2>1. NoticeInv(n)'
      BY <1>4, NoticeAssumption DEF SaveMark, Save, Saved, SaveOrder, NoticeInv, Unknown, Gone, Live, Removing
    <2> QED
      BY <1>4, <2>1, OthersKept DEF SaveMark, Save
  <1>5. ASSUME NEW n \in Notes, Dismiss(n) PROVE \A k \in Notes : NoticeInv(k)'
    <2>1. NoticeInv(n)'
      BY <1>5, NoticeAssumption DEF Dismiss, Without, NoticeInv, Unknown, Gone, Live, Removing
    <2> QED
      BY <1>5, <2>1, OthersKept DEF Dismiss, Without
  <1>6. ASSUME NEW n \in Notes, Check(n) PROVE \A k \in Notes : NoticeInv(k)'
    <2>1. NoticeInv(n)'
      BY <1>6 DEF Check, Keeps, NoticeInv, Unknown, Gone, Live, Removing
    <2> QED
      BY <1>6, <2>1, OthersKept DEF Check
  <1>7. ASSUME NEW n \in Notes, Look(n) PROVE \A k \in Notes : NoticeInv(k)'
    <2>1. NoticeInv(n)'
      BY <1>7 DEF Look, NoticeInv, Unknown, Gone, Live, Removing
    <2> QED
      BY <1>7, <2>1, OthersKept DEF Look
  <1>8. ASSUME NEW n \in Notes, Delete(n) PROVE \A k \in Notes : NoticeInv(k)'
    <2>1. NoticeInv(n)'
      BY <1>8, NoticeAssumption DEF Delete, Without, NoticeInv, Unknown, Gone, Live, Removing
    <2> QED
      BY <1>8, <2>1, OthersKept DEF Delete, Without
  <1>9. ASSUME NEW n \in Notes, Unlist(n) PROVE \A k \in Notes : NoticeInv(k)'
    <2>1. NoticeInv(n)'
      BY <1>9 DEF Unlist, NoticeInv, Unknown, Gone, Live, Removing
    <2> QED
      BY <1>9, <2>1, OthersKept DEF Unlist
  <1>10. ASSUME NEW n \in Notes, Lapse(n) \/ ExpireNotice(n) PROVE \A k \in Notes : NoticeInv(k)'
    <2>1. NoticeInv(n)'
      BY <1>10, NoticeAssumption DEF Lapse, ExpireNotice, Without, NoticeInv, Unknown, Gone, Live, Removing
    <2> QED
      BY <1>10, <2>1, OthersKept DEF Lapse, ExpireNotice, Without
  <1>11. CASE ListNotices
    BY <1>11 DEF ListNotices, NoticeInv, Unknown, Gone, Live, Removing
  <1>12. ASSUME NEW readOnly \in BOOLEAN, Clear(readOnly) PROVE \A k \in Notes : NoticeInv(k)'
    BY <1>12 DEF Clear, NoticeInv, Unknown, Gone, Live, Removing
  <1>13. CASE UNCHANGED noticeVars
    BY <1>13 DEF noticeVars, NoticeInv, Unknown, Gone, Live, Removing
  <1> QED
    BY <1>1, <1>2, <1>3, <1>4, <1>5, <1>6, <1>7, <1>8, <1>9, <1>10, <1>11, <1>12, <1>13 DEF NoticeNext

-----------------------------------------------------------------------------
(* The theorems                                                            *)

\* Keys, index and the places of all operations keep their types, also when marks and
\* removals race (task_manager.rs).
THEOREM NoticeTypesKept == NoticeSpec => []NoticeTypeOK
  <1>1. NoticeInit => NoticeTypeOK
    BY DEF NoticeInit, NoticeTypeOK, Resting
  <1> QED
    BY <1>1, NoticeTypes, PTL DEF NoticeSpec

\* task_manager.rs:660, for any number of notifications, and however marks meet the
\* removals they do not look at: a notification is stored and listed until it is
\* dismissed, cleared or past its time, and never counts as unread after that.  It may
\* be listed again, as read, by a mark that had read it before it was removed.
THEOREM NoticesKept == NoticeSpec => []TillDismissed
  <1>1. NoticeInit => NoticeIInv
    BY DEF NoticeInit, NoticeIInv, NoticeTypeOK, Resting, NoticeInv, Unknown, Gone, Live
  <1>2. NoticeIInv /\ [NoticeNext]_noticeVars => NoticeIInv'
    BY NoticeTypes, NoticeSteps DEF NoticeIInv
  <1>3. NoticeIInv => TillDismissed
    BY DEF NoticeIInv, NoticeInv, Gone, Live, Removing, TillDismissed, Resting
  <1> QED
    BY <1>1, <1>2, <1>3, PTL DEF NoticeSpec

-----------------------------------------------------------------------------
(* Listening (Listening)                                                   *)

Call == [op : {"none", "report", "mark", "bulk", "sync", "night", "unmark", "play"},
         pc : {"start", "write", "complete", "history", "tell"},
         pos : 0..Length, before : 0..Length, natural : BOOLEAN]

LEMMA NoCallType == NoCall \in Call
  BY ListenAssumption DEF NoCall, Call

LEMMA ListenTypes == ListenTypeOK /\ [ListenNext]_listenVars => ListenTypeOK'
  <1> SUFFICES ASSUME ListenTypeOK, [ListenNext]_listenVars PROVE ListenTypeOK'
    OBVIOUS
  <1> USE ListenAssumption
  <1>0. /\ call \in [Callers -> Call] /\ place \in 0..Length /\ best \in 0..Length
        /\ recent \in BOOLEAN /\ done \in BOOLEAN /\ auto \in BOOLEAN /\ told \in BOOLEAN /\ ended \in BOOLEAN
        /\ glitches \in GlitchSets
    BY DEF ListenTypeOK, Call
  <1>1. ASSUME call' \in [Callers -> Call], place' \in 0..Length, best' \in 0..Length,
               recent' \in BOOLEAN, done' \in BOOLEAN, auto' \in BOOLEAN, told' \in BOOLEAN, ended' \in BOOLEAN,
               glitches' \in GlitchSets
        PROVE ListenTypeOK'
    BY <1>1 DEF ListenTypeOK, Call
  <1>2. ASSUME NEW c \in Callers, NEW p \in 1..Length, ReportPlace(c, p) PROVE ListenTypeOK'
    <2>1. [NoCall EXCEPT !.op = "report", !.pos = p] \in Call
      BY NoCallType, 1..Length \subseteq 0..Length DEF Call
    <2>2. call' \in [Callers -> Call]
      BY <1>0, <1>2, <2>1 DEF ReportPlace, Make
    <2>3. ended' \in BOOLEAN /\ best' \in 0..Length
      BY <1>0, <1>2 DEF ReportPlace
    <2> QED
      BY <1>0, <1>1, <1>2, <2>2, <2>3 DEF ReportPlace
  <1>3. ASSUME NEW c \in Callers,
               (\E verb \in Marks : MarkDone(c, verb)) \/ MarkByNight(c) \/ Unmark(c) \/ PlayInWeb(c)
        PROVE ListenTypeOK'
    <2>1. \A verb \in {"mark", "bulk", "sync", "unmark", "play", "night"} :
            [NoCall EXCEPT !.op = verb] \in Call /\ [NoCall EXCEPT !.op = verb, !.pc = "complete"] \in Call
      BY NoCallType DEF Call
    <2>2. call' \in [Callers -> Call]
      BY <1>0, <1>3, <2>1 DEF MarkDone, MarkByNight, Unmark, PlayInWeb, Make, Marks
    <2> QED
      BY <1>0, <1>1, <1>3, <2>2 DEF MarkDone, MarkByNight, Unmark, PlayInWeb
  <1>4. ASSUME NEW c \in Callers, ReadPlace(c) PROVE ListenTypeOK'
    <2>1. [call[c] EXCEPT !.pc = "write", !.before = place] \in Call
      BY <1>0 DEF Call
    <2>2. call' \in [Callers -> Call]
      BY <1>0, <1>4, <2>1 DEF ReadPlace
    <2> QED
      BY <1>0, <1>1, <1>4, <2>2 DEF ReadPlace
  <1>5. ASSUME NEW c \in Callers, WritePlace(c) PROVE ListenTypeOK'
    <2>1. [call[c] EXCEPT !.pc = "complete", !.natural = TRUE] \in Call /\ call[c].pos \in 0..Length
      BY <1>0 DEF Call
    <2>2. call' \in [Callers -> Call]
      BY <1>0, <1>5, <2>1, NoCallType DEF WritePlace, Answer
    <2>3. recent' \in BOOLEAN /\ place' \in 0..Length
      BY <1>0, <1>5, <2>1 DEF WritePlace, Further
    <2> QED
      BY <1>0, <1>1, <1>5, <2>2, <2>3 DEF WritePlace
  <1>6. ASSUME NEW c \in Callers, CheckNatural(c) PROVE ListenTypeOK'
    <2>1. Natural(c) \in BOOLEAN
      BY <1>0 DEF Natural
    <2>2. [call[c] EXCEPT !.pc = "complete", !.natural = Natural(c)] \in Call
      BY <1>0, <2>1 DEF Call
    <2>3. call' \in [Callers -> Call]
      BY <1>0, <1>6, <2>2 DEF CheckNatural
    <2> QED
      BY <1>0, <1>1, <1>6, <2>3 DEF CheckNatural
  <1>7. ASSUME NEW c \in Callers,
               Complete(c) \/ SetEnd(c) \/ TellFinish(c) \/ SetBack(c) \/ StoreStart(c)
        PROVE ListenTypeOK'
    <2>1. \A pc \in {"history", "tell"} : [call[c] EXCEPT !.pc = pc] \in Call
      BY <1>0 DEF Call
    <2>2. call' \in [Callers -> Call]
      BY <1>0, <1>7, <2>1, NoCallType DEF Complete, SetEnd, TellFinish, SetBack, StoreStart, Continue, Answer
    <2>3. 0 \in 0..Length /\ Length \in 0..Length
      OBVIOUS
    <2> QED
      BY <1>0, <1>1, <1>7, <2>2, <2>3 DEF Complete, SetEnd, TellFinish, SetBack, StoreStart
  <1>8. CASE PassTime \/ UNCHANGED listenVars
    BY <1>0, <1>1, <1>8 DEF PassTime, listenVars
  <1> QED
    BY <1>2, <1>3, <1>4, <1>5, <1>6, <1>7, <1>8 DEF ListenNext

LEMMA ListenStarts == ListenInit => ListenTypeOK
  <1>1. 0 \in 0..Length
    BY ListenAssumption
  <1> QED
    BY <1>1, NoCallType DEF ListenInit, ListenTypeOK, Call

-----------------------------------------------------------------------------
(* One report at a time.  Of the requests that mark, and of the one that   *)
(* takes a mark back, there is one at a time as well; those of the night   *)
(* may be several, while none of these is there.                           *)
Turning == Marks \cup {"unmark"}

Alone ==
  \A c, d \in Callers : c # d =>
    /\ call[c].op = "report" => call[d].op # "report"
    /\ call[c].op \in Turning => call[d].op \notin Turning \cup {"night"}

(* What a report may still do to the position ...                          *)
Reports(c) ==
  call[c].op = "report" =>
    /\ call[c].pc = "start" => best <= place \/ best <= call[c].pos
    /\ call[c].pc = "write" => IF call[c].pos > call[c].before THEN best <= call[c].pos ELSE best <= place
    /\ call[c].pos >= Near \/ Completes(call[c].pos) => ended
    /\ call[c].pc \notin {"start", "write"} => ended

(* ... and what any request that is on its way to the end has done.        *)
Ends(c) ==
  /\ call[c].op # "play"
  /\ call[c].op = "none" => call[c] = NoCall
  /\ call[c].op \in {"bulk", "unmark"} => call[c].pc = "start"
  /\ call[c].op \in {"mark", "sync", "night"} /\ call[c].pc \in {"history", "tell"} => done
  /\ call[c].op = "mark" /\ call[c].pc = "start" => ~done \/ ended
  /\ call[c].op = "mark" => call[c].pc # "write"

InReport == \E c \in Callers : call[c].op = "report" /\ call[c].pc \in {"start", "write"}

ListenInv ==
  /\ Alone
  /\ \A c \in Callers : Reports(c) /\ Ends(c)
  /\ InReport \/ best <= place
  /\ recent /\ place >= Near => ended \/ done

LEMMA ListenInvStarts == ListenInit => ListenInv
  BY DEF ListenInit, ListenInv, Alone, Reports, Ends, InReport, NoCall, Turning, Marks

LEMMA ListenStep ==
  ASSUME ListenTypeOK, ListenInv, glitches = {}, [ListenNext]_listenVars
  PROVE ListenInv'
  <1> USE ListenAssumption
  <1>0. /\ call \in [Callers -> Call] /\ place \in 0..Length /\ best \in 0..Length
        /\ recent \in BOOLEAN /\ done \in BOOLEAN /\ ended \in BOOLEAN
        /\ \A f : ~Glitch(f)
        /\ Near \in 1..Length /\ Length \in Nat
    BY DEF ListenTypeOK, Call, Glitch
  <1>n. /\ NoCall.op = "none" /\ NoCall.pc = "start" /\ NoCall.natural = FALSE
        /\ \A verb, p : [NoCall EXCEPT !.op = verb, !.pos = p].op = verb
        /\ \A verb, p : [NoCall EXCEPT !.op = verb, !.pos = p].pc = "start"
        /\ \A verb, p : [NoCall EXCEPT !.op = verb, !.pos = p].pos = p
        /\ \A verb : [NoCall EXCEPT !.op = verb].op = verb
        /\ \A verb : [NoCall EXCEPT !.op = verb].pc = "start"
        /\ \A verb, pc : [NoCall EXCEPT !.op = verb, !.pc = pc].op = verb
        /\ \A verb, pc : [NoCall EXCEPT !.op = verb, !.pc = pc].pc = pc
    BY DEF NoCall
  <1>1. ASSUME NEW c \in Callers, NEW p \in 1..Length, ReportPlace(c, p) PROVE ListenInv'
    <2>1. /\ call[c].op = "none" /\ call'[c].op = "report" /\ call'[c].pc = "start" /\ call'[c].pos = p
          /\ \A d \in Callers \ {c} : call'[d] = call[d] /\ call[d].op # "report"
          /\ best' = (IF p > best THEN p ELSE best)
          /\ ended' = (ended \/ p >= Near \/ Completes(p))
          /\ UNCHANGED <<place, recent, done, auto>>
      BY <1>0, <1>1, <1>n DEF ReportPlace, Make, Busy
    <2>2. best <= place
      BY <2>1 DEF ListenInv, InReport
    <2>3. Alone'
      BY <2>1 DEF ListenInv, Alone, Turning, Marks
    <2>4. Reports(c)' /\ Ends(c)'
      <3>1. best' <= place' \/ best' <= p
        BY <2>1, <2>2, <1>0
      <3>2. p >= Near \/ Completes(p)' => ended'
        BY <2>1 DEF Completes
      <3> QED
        BY <2>1, <3>1, <3>2 DEF Reports, Ends
    <2>5. ASSUME NEW d \in Callers \ {c} PROVE Reports(d)' /\ Ends(d)'
      BY <2>1, <2>5 DEF ListenInv, Reports, Ends
    <2>6. InReport' /\ (recent /\ place >= Near => ended \/ done)'
      BY <2>1 DEF ListenInv, InReport
    <2> QED
      BY <2>3, <2>4, <2>5, <2>6 DEF ListenInv
  <1>2. ASSUME NEW c \in Callers,
               (\E verb \in Marks : MarkDone(c, verb)) \/ MarkByNight(c) \/ Unmark(c) \/ PlayInWeb(c)
        PROVE ListenInv'
    <2>0. /\ call[c] = NoCall /\ \A d \in Callers \ {c} : call'[d] = call[d]
          /\ UNCHANGED <<place, recent, done, auto, best, ended>>
      BY <1>0, <1>2 DEF MarkDone, MarkByNight, Unmark, PlayInWeb, Make
    <2> DEFINE Turned ==
          /\ call'[c].op \in Turning \cup {"night"}
          /\ call'[c].pc = (IF call'[c].op = "night" THEN "complete" ELSE "start")
          /\ call'[c].op = "mark" => ~done
          /\ ~Busy(Turning) /\ (call'[c].op # "night" => ~Busy({"night"}))
    <2>1. Turned
      <3>1. ASSUME NEW verb \in Marks, MarkDone(c, verb) PROVE Turned
        <4>1. call'[c] = [NoCall EXCEPT !.op = verb]
          BY <1>0, <3>1 DEF MarkDone, Make
        <4> QED
          BY <1>0, <1>n, <3>1, <4>1 DEF MarkDone, Busy, Marks, Turning
      <3>2. CASE MarkByNight(c)
        <4>1. call'[c] = [NoCall EXCEPT !.op = "night", !.pc = "complete"]
          BY <1>0, <3>2 DEF MarkByNight, Make
        <4> QED
          BY <1>0, <1>n, <3>2, <4>1 DEF MarkByNight, Busy, Turning
      <3>3. CASE Unmark(c)
        <4>1. call'[c] = [NoCall EXCEPT !.op = "unmark"]
          BY <1>0, <3>3 DEF Unmark, Make
        <4> QED
          BY <1>0, <1>n, <3>3, <4>1 DEF Unmark, Busy, Turning
      <3>4. ~PlayInWeb(c)
        BY <1>0 DEF PlayInWeb
      <3> QED
        BY <1>2, <3>1, <3>2, <3>3, <3>4
    <2>2. /\ call[c].op = "none"
          /\ \A d \in Callers : call[d].op \notin Turning
          /\ call'[c].op # "night" => \A d \in Callers : call[d].op # "night"
      BY <2>0, <2>1, <1>n DEF Busy
    <2>3. Alone'
      BY <2>0, <2>1, <2>2 DEF ListenInv, Alone, Turning, Marks
    <2>4. Reports(c)' /\ Ends(c)'
      BY <2>0, <2>1, <2>2, <1>0 DEF Reports, Ends, Turning, Marks
    <2>5. ASSUME NEW d \in Callers \ {c} PROVE Reports(d)' /\ Ends(d)'
      BY <2>0, <2>1, <2>2, <2>5 DEF ListenInv, Reports, Ends, Completes
    <2>6. (InReport \/ best <= place)' /\ (recent /\ place >= Near => ended \/ done)'
      BY <2>0, <2>1, <2>2 DEF ListenInv, InReport
    <2> QED
      BY <2>3, <2>4, <2>5, <2>6 DEF ListenInv
  <1>3. ASSUME NEW c \in Callers, ReadPlace(c) PROVE ListenInv'
    <2>1. /\ call[c].op = "report" /\ call[c].pc = "start"
          /\ call'[c].op = "report" /\ call'[c].pc = "write" /\ call'[c].before = place
          /\ call'[c].pos = call[c].pos
          /\ \A d \in Callers \ {c} : call'[d] = call[d]
          /\ call[c].pos \in 0..Length
          /\ UNCHANGED <<place, recent, done, auto, best, ended>>
      BY <1>0, <1>3 DEF ReadPlace, Call
    <2>3. Alone'
      BY <2>1 DEF ListenInv, Alone
    <2>4. Reports(c)' /\ Ends(c)'
      BY <2>1, <1>0 DEF ListenInv, Reports, Ends, Completes
    <2>5. ASSUME NEW d \in Callers \ {c} PROVE Reports(d)' /\ Ends(d)'
      BY <2>1, <2>5 DEF ListenInv, Reports, Ends, Completes
    <2>6. InReport' /\ (recent /\ place >= Near => ended \/ done)'
      BY <2>1 DEF ListenInv, InReport
    <2> QED
      BY <2>3, <2>4, <2>5, <2>6 DEF ListenInv
  <1>4. ASSUME NEW c \in Callers, WritePlace(c) PROVE ListenInv'
    <2>1. /\ call[c].op = "report" /\ call[c].pc = "write"
          /\ \/ call'[c].op = "report" /\ call'[c].pc = "complete" /\ call'[c].pos = call[c].pos
                /\ Completes(call[c].pos)
             \/ call'[c] = NoCall
          /\ place' = (IF call[c].pos > call[c].before THEN call[c].pos ELSE place)
          /\ recent' = (recent \/ call[c].pos > call[c].before)
          /\ \A d \in Callers \ {c} : call'[d] = call[d]
          /\ call[c].pos \in 0..Length /\ call[c].before \in 0..Length
          /\ UNCHANGED <<done, auto, best, ended>>
      BY <1>0, <1>4 DEF WritePlace, Answer, Further, Call
    <2>2. best <= place'
      BY <2>1 DEF ListenInv, Reports
    <2>3. Alone'
      BY <2>1, <1>n DEF ListenInv, Alone, Turning, Marks
    <2>4. Reports(c)' /\ Ends(c)'
      BY <2>1, <1>0, <1>n DEF ListenInv, Reports, Ends, Completes
    <2>5. ASSUME NEW d \in Callers \ {c} PROVE Reports(d)' /\ Ends(d)'
      <3>1. call[d].op # "report"
        BY <2>1, <2>5 DEF ListenInv, Alone
      <3> QED
        BY <2>1, <2>5, <3>1 DEF ListenInv, Reports, Ends
    <2>6. (recent /\ place >= Near => ended \/ done)'
      BY <2>1, <1>0 DEF ListenInv, Reports
    <2> QED
      BY <2>1, <2>2, <2>3, <2>4, <2>5, <2>6 DEF ListenInv
  <1>5. ASSUME NEW c \in Callers, CheckNatural(c) PROVE ListenInv'
    <2>1. /\ call[c].op = "mark" /\ call'[c].op = "mark" /\ call'[c].pc = "complete"
          /\ \A d \in Callers \ {c} : call'[d] = call[d]
          /\ UNCHANGED <<place, recent, done, auto, best, ended>>
      BY <1>0, <1>5 DEF CheckNatural, Call
    <2>3. Alone'
      BY <2>1 DEF ListenInv, Alone, Turning, Marks
    <2>4. Reports(c)' /\ Ends(c)'
      BY <2>1, <1>0 DEF ListenInv, Reports, Ends
    <2>5. ASSUME NEW d \in Callers \ {c} PROVE Reports(d)' /\ Ends(d)'
      BY <2>1, <2>5 DEF ListenInv, Reports, Ends, Completes
    <2>6. (InReport \/ best <= place)' /\ (recent /\ place >= Near => ended \/ done)'
      BY <2>1 DEF ListenInv, InReport
    <2> QED
      BY <2>3, <2>4, <2>5, <2>6 DEF ListenInv
  <1>6. ASSUME NEW c \in Callers, Complete(c) PROVE ListenInv'
    <2>1. /\ call'[c] = NoCall \/ (/\ call'[c].op = call[c].op /\ call'[c].pc = "history"
                                  /\ call[c].op # "bulk"
                                  /\ call'[c].pos = call[c].pos)
          /\ call[c].pc = "complete" \/ call[c].op \in {"bulk", "sync"}
          /\ call[c].op \notin {"none", "unmark"} /\ (call[c].op = "report" => ended)
          /\ \A d \in Callers \ {c} : call'[d] = call[d]
          /\ done' = TRUE
          /\ UNCHANGED <<place, recent, auto, best, ended>>
      BY <1>0, <1>6, <1>n DEF Complete, Answer, Continue, Call, ListenInv, Reports, Ends
    <2>3. Alone'
      BY <2>1, <1>n DEF ListenInv, Alone, Turning, Marks
    <2>4. Reports(c)' /\ Ends(c)'
      <3>1. Reports(c)'
        BY <2>1, <1>n DEF ListenInv, Reports, Completes
      <3>2. Ends(c)'
        <4>1. Ends(c)
          BY DEF ListenInv
        <4>2. CASE call'[c] = NoCall
          BY <4>2, <1>n DEF Ends
        <4>3. CASE call'[c].op = call[c].op /\ call'[c].pc = "history" /\ call[c].op # "bulk"
          BY <2>1, <4>1, <4>3 DEF Ends
        <4> QED
          BY <2>1, <4>2, <4>3
      <3> QED
        BY <3>1, <3>2
    <2>5. ASSUME NEW d \in Callers \ {c} PROVE Reports(d)' /\ Ends(d)'
      <3>1. Reports(d)'
        BY <2>1, <2>5 DEF ListenInv, Reports, Completes
      <3>2. call[d].op = "mark" => call[c].op = "report"
        BY <1>0, <2>1, <2>5 DEF ListenInv, Alone, Turning, Marks, Ends, Call
      <3> QED
        BY <2>1, <2>5, <3>1, <3>2 DEF ListenInv, Ends
    <2>6. (InReport \/ best <= place)' /\ (recent /\ place >= Near => ended \/ done)'
      BY <2>1 DEF ListenInv, InReport
    <2> QED
      BY <2>3, <2>4, <2>5, <2>6 DEF ListenInv
  <1>7. ASSUME NEW c \in Callers, SetEnd(c) \/ TellFinish(c) PROVE ListenInv'
    <2>1. /\ call'[c] = NoCall \/ (/\ call'[c].op = call[c].op /\ call'[c].pc = "tell"
                                  /\ call'[c].pos = call[c].pos)
          /\ call[c].pc \in {"history", "tell"}
          /\ call[c].op \notin {"none", "unmark", "bulk"}
          /\ \A d \in Callers \ {c} : call'[d] = call[d]
          /\ (place' = Length \/ (place' = place /\ recent' = recent))
          /\ UNCHANGED <<done, auto, best, ended>>
      BY <1>0, <1>7, <1>n DEF SetEnd, TellFinish, Answer, Continue, Call, ListenInv, Ends
    <2>2. best <= Length /\ place' >= place
      BY <1>0, <2>1
    <2>3. Alone'
      BY <2>1, <1>n DEF ListenInv, Alone, Turning, Marks
    <2>4. Reports(c)' /\ Ends(c)'
      BY <2>1, <1>0, <1>n DEF ListenInv, Reports, Ends, Completes
    <2>5. ASSUME NEW d \in Callers \ {c} PROVE Reports(d)' /\ Ends(d)'
      <3>1. call[d] \in Call
        BY <1>0
      <3>2. Reports(d)'
        BY <2>1, <2>2, <2>5, <3>1, <1>0 DEF ListenInv, Reports, Completes, Call
      <3> QED
        BY <2>1, <2>5, <3>2 DEF ListenInv, Ends
    <2>6. (InReport \/ best <= place)'
      BY <2>1, <2>2, <1>0 DEF ListenInv, InReport
    <2>7. (recent /\ place >= Near => ended \/ done)'
      <3>1. ended \/ done
        BY <1>0, <2>1 DEF ListenInv, Reports, Ends, Call
      <3> QED
        BY <2>1, <3>1 DEF ListenInv
    <2> QED
      BY <2>3, <2>4, <2>5, <2>6, <2>7 DEF ListenInv
  <1>8. ASSUME NEW c \in Callers, SetBack(c) \/ StoreStart(c) PROVE ListenInv'
    <2>1. /\ call[c].op = "unmark" /\ call'[c] = NoCall
          /\ \A d \in Callers \ {c} : call'[d] = call[d]
          /\ done' = FALSE /\ place' = 0 /\ best' = 0
          /\ UNCHANGED <<auto, ended>>
      BY <1>0, <1>8 DEF SetBack, StoreStart, Answer, ListenInv, Ends
    <2>3. Alone'
      BY <2>1, <1>n DEF ListenInv, Alone, Turning, Marks
    <2>4. Reports(c)' /\ Ends(c)'
      BY <2>1, <1>0, <1>n DEF Reports, Ends
    <2>5. ASSUME NEW d \in Callers \ {c} PROVE Reports(d)' /\ Ends(d)'
      <3>1. call[d].op \notin Turning \cup {"night"} /\ call[d] \in Call
        BY <1>0, <2>1, <2>5 DEF ListenInv, Alone, Turning, Marks
      <3> QED
        BY <2>1, <2>5, <3>1 DEF ListenInv, Reports, Ends, Completes, Turning, Marks, Call
    <2>6. (InReport \/ best <= place)' /\ (recent /\ place >= Near => ended \/ done)'
      BY <2>1, <1>0
    <2> QED
      BY <2>3, <2>4, <2>5, <2>6 DEF ListenInv
  <1>9. CASE PassTime
    <2>1. /\ \A d \in Callers : call'[d] = NoCall /\ call[d] = NoCall
          /\ UNCHANGED <<place, best>> /\ recent' = FALSE
      BY <1>9 DEF PassTime, AtRest
    <2> QED
      BY <2>1, <1>n DEF ListenInv, Alone, Reports, Ends, InReport, Turning, Marks
  <1>10. CASE UNCHANGED listenVars
    BY <1>10 DEF listenVars, ListenInv, Alone, Reports, Ends, InReport, Completes
  <1> QED
    BY <1>1, <1>2, <1>3, <1>4, <1>5, <1>6, <1>7, <1>8, <1>9, <1>10 DEF ListenNext

\* What is checked near the end: who announces it follows a player that was there.
FinishStep ==
  glitches = {} =>
    \A c \in Callers : call[c].op = "mark" /\ ~call[c].natural /\ call'[c].natural => ended

LEMMA FinishSteps == ListenTypeOK /\ (glitches = {} => ListenInv) /\ [ListenNext]_listenVars => FinishStep
  <1> SUFFICES ASSUME ListenTypeOK, ListenInv, glitches = {}, [ListenNext]_listenVars,
                      NEW c \in Callers, call[c].op = "mark", ~call[c].natural, call'[c].natural
               PROVE ended
    BY DEF FinishStep
  <1>0. call \in [Callers -> Call] /\ NoCall.op = "none" /\ NoCall.natural = FALSE
    BY DEF ListenTypeOK, Call, NoCall
  <1>1. CASE CheckNatural(c)
    <2>1. call[c].pc = "start" /\ recent /\ place >= Near
      BY <1>0, <1>1 DEF CheckNatural, Natural, Call
    <2> QED
      BY <2>1 DEF ListenInv, Ends
  <1>2. ASSUME NEW d \in Callers, d # c,
               \/ \E p \in 1..Length : ReportPlace(d, p)
               \/ \E verb \in Marks : MarkDone(d, verb)
               \/ MarkByNight(d) \/ Unmark(d) \/ PlayInWeb(d)
               \/ ReadPlace(d) \/ WritePlace(d) \/ CheckNatural(d) \/ Complete(d) \/ SetEnd(d)
               \/ TellFinish(d) \/ SetBack(d) \/ StoreStart(d)
        PROVE call'[c] = call[c]
    BY <1>0, <1>2 DEF ReportPlace, MarkDone, MarkByNight, Unmark, PlayInWeb, ReadPlace, WritePlace,
      CheckNatural, Complete, SetEnd, TellFinish, SetBack, StoreStart, Make, Answer, Continue
  <1>3. ~(\/ \E p \in 1..Length : ReportPlace(c, p)
          \/ \E verb \in Marks : MarkDone(c, verb)
          \/ MarkByNight(c) \/ Unmark(c) \/ PlayInWeb(c) \/ ReadPlace(c) \/ WritePlace(c)
          \/ SetBack(c) \/ StoreStart(c))
    BY <1>0 DEF ReportPlace, MarkDone, MarkByNight, Unmark, PlayInWeb, ReadPlace, WritePlace, SetBack,
      StoreStart, Make
  <1>4. ASSUME Complete(c) \/ SetEnd(c) \/ TellFinish(c) PROVE ~call'[c].natural
    BY <1>0, <1>4 DEF Complete, SetEnd, TellFinish, Answer, Continue, Call
  <1>5. CASE PassTime \/ UNCHANGED listenVars
    BY <1>5 DEF PassTime, listenVars
  <1> QED
    BY <1>1, <1>2, <1>3, <1>4, <1>5 DEF ListenNext

ListenIInv == ListenTypeOK /\ (glitches = {} => ListenInv)

LEMMA ListenInvariant == ListenSpec => []ListenIInv
  <1>1. ListenInit => ListenIInv
    BY ListenStarts, ListenInvStarts DEF ListenIInv
  <1>2. ListenIInv /\ [ListenNext]_listenVars => ListenIInv'
    <2> SUFFICES ASSUME ListenIInv, [ListenNext]_listenVars PROVE ListenIInv'
      OBVIOUS
    <2>1. glitches' = glitches
      BY DEF ListenNext, ReportPlace, MarkDone, MarkByNight, Unmark, PlayInWeb, ReadPlace, WritePlace,
        CheckNatural, Complete, SetEnd, TellFinish, SetBack, StoreStart, PassTime, listenVars
    <2> QED
      BY <2>1, ListenTypes, ListenStep DEF ListenIInv
  <1> QED
    BY <1>1, <1>2, PTL DEF ListenSpec

\* The types of the rows, the key and the requests, whatever overlaps.
THEOREM ListenTypesKept == ListenSpec => []ListenTypeOK
  <1>1. ListenIInv => ListenTypeOK
    BY DEF ListenIInv
  <1> QED
    BY <1>1, ListenInvariant, PTL

\* A player resumes where it was, for any number of requests that mark, take back
\* and report at once, one report at a time.
THEOREM PositionsResume == ListenSpec => []Resumes
  <1>1. ListenIInv => Resumes
    <2> SUFFICES ASSUME ListenInv, AtRest PROVE best <= place
      BY DEF ListenIInv, Resumes
    <2> QED
      BY DEF AtRest, ListenInv, InReport, NoCall
  <1> QED
    BY <1>1, ListenInvariant, PTL

\* The end of an episode is announced by a mark only when a player came near it
\* within ten minutes, for any number of requests.
THEOREM FinishIsHeard == ListenSpec => FinishHeard
  <1>1. ListenIInv /\ [ListenNext]_listenVars => FinishStep
    BY FinishSteps DEF ListenIInv
  <1> QED
    BY <1>1, ListenInvariant, PTL DEF ListenSpec, FinishHeard, FinishStep

-----------------------------------------------------------------------------
(* Devices that play (NowPlaying)                                          *)

LEMMA DeviceTypes == DeviceTypeOK /\ [DeviceNext]_deviceVars => DeviceTypeOK'
  <1> SUFFICES ASSUME DeviceTypeOK, [DeviceNext]_deviceVars PROVE DeviceTypeOK'
    OBVIOUS
  <1> USE DEF DeviceTypeOK
  <1>1. ASSUME NEW s \in Sockets,
               OpenSocket(s) \/ EndSocket(s) \/ EndReader(s) \/ HandlerStep(s) \/ ReportStep(s)
        PROVE DeviceTypeOK'
    <2>1. CASE OpenSocket(s)
      BY <2>1 DEF OpenSocket
    <2>2. CASE EndSocket(s) \/ EndReader(s)
      BY <2>2 DEF EndSocket, EndReader
    <2>3. CASE HandlerStep(s)
      BY <2>3 DEF HandlerStep, Unregister, DeleteSnapshot, RemoveMember
    <2>4. CASE ReportStep(s)
      BY <2>4 DEF ReportStep, StartReport, SetSnapshot, AddMember, Added
    <2> QED
      BY <1>1, <2>1, <2>2, <2>3, <2>4
  <1>2. CASE StartLook \/ LookAt \/ Prune
    BY <1>2 DEF StartLook, LookAt, Prune
  <1>3. CASE ExpireSnapshot \/ RestartServer
    BY <1>3 DEF ExpireSnapshot, RestartServer
  <1>4. CASE UNCHANGED deviceVars
    BY <1>4 DEF deviceVars
  <1> QED
    BY <1>1, <1>2, <1>3, <1>4 DEF DeviceNext

\* A device is where its handlers, its reader and its reports can be
\* (handlers/nowplaying.rs, redis_client.rs).
THEOREM DeviceTypesKept == DeviceSpec => []DeviceTypeOK
  <1>1. DeviceInit => DeviceTypeOK
    BY DEF DeviceInit, DeviceTypeOK
  <1> QED
    BY <1>1, DeviceTypes, PTL DEF DeviceSpec

-----------------------------------------------------------------------------
(* Backups (Backups)                                                       *)

File == [at : 1..MaxMinute, by : Polls \cup {NoPoll}, whole : BOOLEAN]

\* A poll at work knows its minute.
BackupTyped == BackupTypeOK /\ \A p \in Polls : poll[p].pc # "idle" => poll[p].now \in 1..MaxMinute

\* The library's induction theorems cannot be instantiated; its theorem that the
\* subsets of a finite set are well-founded can.
LEMMA LargestOf ==
  ASSUME NEW S, IsFiniteSet(S), S \subseteq Nat
  PROVE Largest(S) \in Nat /\ (S # {} => Largest(S) \in S /\ \A k \in S : k <= Largest(S))
  <1>1. CASE S = {}
    BY <1>1 DEF Largest
  <1>2. CASE S # {}
    <2> DEFINE Above(x) == {y \in S : y > x}
               Aboves == {Above(x) : x \in S}
    <2>1. IsWellFoundedOn(StrictSubsetOrdering(S), SUBSET S)
      BY FS_StrictSubsetOrderingWellFounded, FS_FiniteSubsetsOfFinite
    <2>2. PICK A \in Aboves : \A B \in Aboves : <<B, A>> \notin StrictSubsetOrdering(S)
      <3>1. Aboves \subseteq SUBSET S /\ Aboves # {}
        BY <1>2
      <3> HIDE DEF Aboves
      <3> QED
        BY <2>1, <3>1, WFMin
    <2>3. PICK m \in S : A = Above(m)
      OBVIOUS
    <2>4. ASSUME NEW s \in S, s > m PROVE FALSE
      <3>1. Above(s) \subseteq Above(m) /\ s \in Above(m) /\ s \notin Above(s)
        <4>1. \A y \in S : y > s => y > m
          BY <2>4, SMT
        <4>2. s > m /\ ~(s > s)
          BY <2>4, SMT
        <4> HIDE DEF Aboves
        <4> QED
          BY <4>1, <4>2, Zenon
      <3>2. <<Above(s), A>> \in StrictSubsetOrdering(S)
        BY <2>3, <3>1 DEF StrictSubsetOrdering
      <3> QED
        BY <2>2, <3>2
    <2>5. \A k \in S : k <= m
      BY <2>4
    <2> HIDE DEF Aboves
    <2>6. Largest(S) \in S /\ \A k \in S : k <= Largest(S)
      BY <1>2, <2>5 DEF Largest
    <2> QED
      BY <2>6
  <1> QED
    BY <1>1, <1>2

\* A sequence of files stays one when a file moves, and when old ones go.
LEMMA TouchedFiles ==
  ASSUME files \in Seq(File), NEW k \in DOMAIN files, NEW file \in File, Touch(k, file)
  PROVE files' \in Seq(File)
  <1>1. k \in 1..Len(files) /\ Len(files) \in Nat
    BY LenProperties
  <1>2. SubSeq(files, 1, k - 1) \in Seq(File) /\ SubSeq(files, k + 1, Len(files)) \in Seq(File)
    BY <1>1, SubSeqProperties
  <1>3. <<file>> \in Seq(File)
    OBVIOUS
  <1> QED
    BY <1>2, <1>3, ConcatProperties DEF Touch

LEMMA PrunedFiles ==
  ASSUME files \in Seq(File), NEW count \in Nat
  PROVE Pruned(count) \in Seq(File)
  <1>1. Len(files) \in Nat
    BY LenProperties
  <1>2. CASE count = 0 \/ Len(files) <= count
    BY <1>2 DEF Pruned
  <1>3. CASE count # 0 /\ ~(Len(files) <= count)
    <2>1. Len(files) - count + 1 \in 1..Len(files) + 1 /\ Len(files) \in Len(files) - count..Len(files)
      BY <1>1, <1>3
    <2>2. SubSeq(files, Len(files) - count + 1, Len(files)) \in Seq(File)
      BY <1>1, <1>3, SubSeqProperties
    <2> QED
      BY <1>3, <2>2 DEF Pruned
  <1> QED
    BY <1>2, <1>3

LEMMA OwnedFiles ==
  ASSUME BackupTypeOK, NEW k \in DOMAIN files
  PROVE files \in Seq(File) /\ files[k] \in File
  <1>1. files \in Seq(File)
    BY DEF BackupTypeOK, File
  <1> QED
    BY <1>1, ElementOfSeq, LenProperties

\* A poll that starts keeps as many files as the due schedule that keeps most.
LEMMA StartPollTyped ==
  ASSUME BackupTyped, NEW p \in Polls, StartPoll(p)
  PROVE BackupTyped'
  <1> DEFINE new == {s \in Enabled : row[s].last = 0}
             due == {s \in Enabled : Due(s)}
             counts == {row[s].keep : s \in due} \ {0}
             started == [pc |-> "start", now |-> minute, new |-> new, due |-> due, left |-> due,
                         keep |-> Largest(counts)]
  <1>1. new \subseteq Schedules /\ due \subseteq Schedules
    BY DEF Enabled
  <1>2. Largest(counts) \in Nat
    <2>1. IsFiniteSet(due)
      BY <1>1, BackupAssumption, FS_Subset
    <2> DEFINE all == {row[s].keep : s \in due}
    <2>2. IsFiniteSet(all)
      <3> DEFINE keep == [s \in due |-> row[s].keep]
      <3>1. keep \in Surjection(due, all)
        BY DEF Surjection
      <3> HIDE DEF due, all, keep
      <3> QED
        BY <2>1, <3>1, FS_Surjection
    <2>3. IsFiniteSet(counts)
      <3> HIDE DEF all
      <3>1. IsFiniteSet(all \ {0})
        BY <2>2, FS_Subset
      <3> QED
        BY <3>1 DEF all
    <2>4. counts \subseteq Nat
      <3>1. \A s \in Schedules : row[s].keep \in Nat
        <4>1. row \in [Schedules -> Row] /\ Counts \cup {0} \subseteq Nat
          BY BackupAssumption DEF BackupTyped, BackupTypeOK
        <4> QED
          BY <4>1 DEF Row
      <3> QED
        BY <1>1, <3>1
    <2> HIDE DEF counts
    <2> QED
      BY <2>3, <2>4, LargestOf
  <1>3. poll' \in {poll, [poll EXCEPT ![p] = started]}
    BY DEF StartPoll
  <1>4. /\ started \in [pc : {"idle", "start", "dump", "prune"}, now : 0..MaxMinute, new : SUBSET Schedules,
                       due : SUBSET Schedules, left : SUBSET Schedules, keep : Nat]
        /\ started.now \in 1..MaxMinute
    <2> HIDE DEF new, due, counts
    <2> QED
      BY <1>1, <1>2 DEF BackupTyped, BackupTypeOK
  <1> HIDE DEF started
  <1>5. polled' = minute /\ UNCHANGED <<row, files, minute, changes, flawed, flaws>>
    BY DEF StartPoll
  <1>6. /\ poll' \in [Polls -> [pc : {"idle", "start", "dump", "prune"}, now : 0..MaxMinute,
                               new : SUBSET Schedules, due : SUBSET Schedules,
                               left : SUBSET Schedules, keep : Nat]]
        /\ \A r \in Polls : poll'[r].pc # "idle" => poll'[r].now \in 1..MaxMinute
    BY <1>3, <1>4 DEF BackupTyped, BackupTypeOK
  <1>7. polled' \in 0..minute'
    BY <1>5 DEF BackupTyped, BackupTypeOK
  <1> QED
    BY <1>5, <1>6, <1>7 DEF BackupTyped, BackupTypeOK

LEMMA FailsTyped ==
  ASSUME BackupTypeOK, NEW fault, Fails(fault) \/ UNCHANGED flawed
  PROVE flawed' \in 0..MaxFlaws
  BY BackupAssumption DEF BackupTypeOK, Fails

\* What a poll does to its own state.
LEMMA PollTyped ==
  ASSUME BackupTyped, NEW p \in Polls, NEW q, poll' = [poll EXCEPT ![p] = q],
         \/ q = NoPolling
         \/ \E pc \in {"dump", "prune"} : q = [poll[p] EXCEPT !.pc = pc] /\ poll[p].pc # "idle"
         \/ \E s \in Schedules : q = [poll[p] EXCEPT !.new = @ \ {s}]
         \/ \E s \in Schedules : q = [poll[p] EXCEPT !.left = @ \ {s}]
  PROVE /\ poll' \in [Polls -> [pc : {"idle", "start", "dump", "prune"}, now : 0..MaxMinute,
                               new : SUBSET Schedules, due : SUBSET Schedules,
                               left : SUBSET Schedules, keep : Nat]]
        /\ \A r \in Polls : poll'[r].pc # "idle" => poll'[r].now \in 1..MaxMinute
  <1>1. /\ q \in [pc : {"idle", "start", "dump", "prune"}, now : 0..MaxMinute,
                  new : SUBSET Schedules, due : SUBSET Schedules, left : SUBSET Schedules, keep : Nat]
        /\ q.pc # "idle" => q.now \in 1..MaxMinute
    <2>1. CASE q = NoPolling
      BY <2>1, BackupAssumption DEF NoPolling
    <2>2. CASE q # NoPolling
      BY <2>2 DEF BackupTyped, BackupTypeOK
    <2> QED
      BY <2>1, <2>2
  <1> QED
    BY <1>1 DEF BackupTyped, BackupTypeOK

LEMMA RanTyped ==
  ASSUME BackupTyped, NEW p \in Polls, NEW s \in Schedules, Ran(s, p) \/ UNCHANGED row
  PROVE row' \in [Schedules -> Row]
  <1>1. row \in [Schedules -> Row] /\ poll[p].now \in 0..MaxMinute
    BY DEF BackupTyped, BackupTypeOK
  <1>2. ASSUME Ran(s, p) PROVE row' \in [Schedules -> Row]
    <2>1. row[s] \in Row
      BY <1>1
    <2>2. [row[s] EXCEPT !.last = poll[p].now] \in Row
      BY <1>1, <2>1 DEF Row
    <2>3. row' = [row EXCEPT ![s] = [row[s] EXCEPT !.last = poll[p].now]]
      BY <1>1, <1>2 DEF Ran
    <2> QED
      BY <1>1, <2>2, <2>3
  <1> QED
    BY <1>1, <1>2

LEMMA PollStepTyped ==
  ASSUME BackupTyped, NEW p \in Polls, PollStep(p) \/ WriteDump(p)
  PROVE BackupTyped'
  <1>0. /\ UNCHANGED <<polled, minute, changes, flaws>> /\ files \in Seq(File)
        /\ polled \in 0..minute /\ minute \in 1..MaxMinute /\ changes \in 0..MaxChanges /\ flaws \in FlawSets
    BY DEF PollStep, SetBaseline, NoteRun, NothingDue, StartDump, EndDump, FailDump, PruneDumps, WriteDump,
       BackupTyped, BackupTypeOK, File
  <1>1. flawed' \in 0..MaxFlaws
    BY FailsTyped DEF PollStep, SetBaseline, NoteRun, NothingDue, StartDump, EndDump, FailDump, PruneDumps,
       WriteDump, BackupTyped
  <1>2. row' \in [Schedules -> Row]
    BY RanTyped DEF PollStep, SetBaseline, NoteRun, NothingDue, StartDump, EndDump, FailDump, PruneDumps,
       WriteDump, BackupTyped, BackupTypeOK
  <1>3. /\ poll' \in [Polls -> [pc : {"idle", "start", "dump", "prune"}, now : 0..MaxMinute,
                               new : SUBSET Schedules, due : SUBSET Schedules,
                               left : SUBSET Schedules, keep : Nat]]
        /\ \A r \in Polls : poll'[r].pc # "idle" => poll'[r].now \in 1..MaxMinute
    <2>1. CASE WriteDump(p)
      BY <2>1 DEF WriteDump, BackupTyped, BackupTypeOK
    <2>2. CASE NothingDue(p) \/ FailDump(p) \/ PruneDumps(p)
      <3>1. poll' = [poll EXCEPT ![p] = NoPolling]
        BY <2>2 DEF NothingDue, FailDump, PruneDumps
      <3> QED
        BY <3>1, PollTyped
    <2>3. CASE StartDump(p) \/ EndDump(p)
      <3>1. PICK pc \in {"dump", "prune"} : poll' = [poll EXCEPT ![p].pc = pc] /\ poll[p].pc # "idle"
        BY <2>3 DEF StartDump, EndDump
      <3>2. PICK q : q = [poll[p] EXCEPT !.pc = pc]
        OBVIOUS
      <3>3. poll' = [poll EXCEPT ![p] = q]
        BY <3>1, <3>2
      <3> QED
        BY <3>1, <3>2, <3>3, PollTyped
    <2>4. CASE \E s \in Schedules : SetBaseline(p, s)
      <3>1. PICK s \in Schedules : poll' = [poll EXCEPT ![p].new = @ \ {s}]
        BY <2>4 DEF SetBaseline
      <3>2. PICK q : q = [poll[p] EXCEPT !.new = @ \ {s}]
        OBVIOUS
      <3>3. poll' = [poll EXCEPT ![p] = q]
        BY <3>1, <3>2
      <3> QED
        BY <3>2, <3>3, PollTyped
    <2>5. CASE \E s \in Schedules : NoteRun(p, s)
      <3>1. PICK s \in Schedules : poll' = [poll EXCEPT ![p].left = @ \ {s}]
        BY <2>5 DEF NoteRun
      <3>2. PICK q : q = [poll[p] EXCEPT !.left = @ \ {s}]
        OBVIOUS
      <3>3. poll' = [poll EXCEPT ![p] = q]
        BY <3>1, <3>2
      <3> QED
        BY <3>2, <3>3, PollTyped
    <2> QED
      BY <2>1, <2>2, <2>3, <2>4, <2>5 DEF PollStep
  <1>4. files' \in Seq(File)
    <2>1. CASE StartDump(p)
      <3>1. [at |-> poll[p].now, by |-> p, whole |-> FALSE] \in File
        BY <2>1 DEF StartDump, BackupTyped, File
      <3> QED
        BY <1>0, <2>1, <3>1, AppendProperties DEF StartDump
    <2>2. CASE WriteDump(p) \/ EndDump(p)
      <3>1. CASE UNCHANGED files
        BY <1>0, <3>1
      <3>2. ASSUME NEW k \in DOMAIN files, NEW file, Touch(k, file),
                   file = files[k] \/ file = [files[k] EXCEPT !.by = NoPoll, !.whole = TRUE]
            PROVE files' \in Seq(File)
        <4>1. files[k] \in File
          BY OwnedFiles DEF BackupTyped
        <4>2. file \in File
          BY <3>2, <4>1 DEF File
        <4> QED
          BY <1>0, <3>2, <4>2, TouchedFiles
      <3> QED
        BY <2>2, <3>1, <3>2 DEF WriteDump, EndDump, Written
    <2>3. CASE FailDump(p)
      <3>1. files' = Closed(p)
        BY <2>3 DEF FailDump
      <3>2. Len(files) \in Nat /\ DOMAIN files = 1..Len(files)
        BY <1>0, LenProperties
      <3>3. \A i \in 1..Len(files) : [files[i] EXCEPT !.by = NoPoll] \in File /\ files[i] \in File
        BY <3>2, OwnedFiles DEF BackupTyped, File
      <3>4. Closed(p) \in [1..Len(files) -> File]
        BY <3>2, <3>3 DEF Closed
      <3> QED
        BY <3>1, <3>2, <3>4
    <2>4. CASE PruneDumps(p)
      <3>1. poll[p].keep \in Nat
        BY DEF BackupTyped, BackupTypeOK
      <3> QED
        BY <1>0, <2>4, <3>1, PrunedFiles DEF PruneDumps
    <2> QED
      BY <1>0, <2>1, <2>2, <2>3, <2>4 DEF PollStep, SetBaseline, NoteRun, NothingDue
  <1> QED
    BY <1>0, <1>1, <1>2, <1>3, <1>4 DEF BackupTyped, BackupTypeOK, File

LEMMA BackupTypes == BackupTyped /\ [BackupNext]_backupVars => BackupTyped'
  <1> SUFFICES ASSUME BackupTyped, [BackupNext]_backupVars PROVE BackupTyped'
    OBVIOUS
  <1>1. CASE UNCHANGED backupVars
    BY <1>1 DEF backupVars, BackupTyped, BackupTypeOK
  <1>2. CASE PassMinute
    BY <1>2, BackupAssumption DEF PassMinute, BackupTyped, BackupTypeOK
  <1>3. ASSUME NEW s \in Schedules, NEW on \in BOOLEAN, NEW cron \in Crons, NEW keep \in Counts,
               SetSchedule(s, on, cron, keep)
        PROVE BackupTyped'
    <2>1. row' \in [Schedules -> Row]
      BY <1>3 DEF SetSchedule, BackupTyped, BackupTypeOK, Row
    <2> QED
      BY <1>3, <2>1, BackupAssumption DEF SetSchedule, BackupTyped, BackupTypeOK
  <1>4. CASE RestartScheduler
    <2>1. /\ files \in Seq(File) /\ poll' = [p \in Polls |-> NoPolling]
          /\ files' = [i \in DOMAIN files |-> [files[i] EXCEPT !.by = NoPoll]]
          /\ UNCHANGED <<row, polled, minute, changes, flaws>>
      BY <1>4 DEF RestartScheduler, BackupTyped, BackupTypeOK, File
    <2>2. Len(files) \in Nat /\ DOMAIN files = 1..Len(files)
      BY <2>1, LenProperties
    <2>3. \A i \in 1..Len(files) : [files[i] EXCEPT !.by = NoPoll] \in File
      BY <2>2, OwnedFiles DEF BackupTyped, File
    <2>4. files' \in Seq(File)
      <3>1. files' \in [1..Len(files) -> File]
        BY <2>1, <2>2, <2>3
      <3> QED
        BY <2>2, <3>1
    <2>5. flawed' \in 0..MaxFlaws
      BY <1>4, FailsTyped DEF RestartScheduler, BackupTyped
    <2> QED
      BY <2>1, <2>4, <2>5, BackupAssumption DEF BackupTyped, BackupTypeOK, NoPolling, File
  <1> QED
    BY <1>1, <1>2, <1>3, <1>4, StartPollTyped, PollStepTyped DEF BackupNext

LEMMA BackupStarts == BackupInit => BackupTyped
  <1> SUFFICES ASSUME BackupInit PROVE BackupTyped
    OBVIOUS
  <1>1. NoRow \in Row
    BY BackupAssumption DEF NoRow, Row
  <1>2. row \in [Schedules -> Row] /\ flaws \in FlawSets
    BY <1>1 DEF BackupInit
  <1>3. files \in Seq([at : 1..MaxMinute, by : Polls \cup {NoPoll}, whole : BOOLEAN])
    BY DEF BackupInit
  <1>4. /\ poll \in [Polls -> [pc : {"idle", "start", "dump", "prune"}, now : 0..MaxMinute,
                              new : SUBSET Schedules, due : SUBSET Schedules,
                              left : SUBSET Schedules, keep : Nat]]
        /\ \A p \in Polls : poll[p].pc = "idle"
    BY BackupAssumption DEF BackupInit, NoPolling
  <1>5. minute \in 1..MaxMinute /\ polled \in 0..minute /\ changes \in 0..MaxChanges /\ flawed \in 0..MaxFlaws
    BY BackupAssumption DEF BackupInit
  <1> QED
    BY <1>2, <1>3, <1>4, <1>5 DEF BackupTyped, BackupTypeOK

\* Whatever fails or overlaps, what is listed are dumps of a poll or finished
\* files, and a poll keeps as many as a schedule says (execute_scheduled_backup,
\* run_scheduled_backups).
THEOREM BackupTypesKept == BackupSpec => []BackupTypeOK
  <1>1. BackupTyped => BackupTypeOK
    BY DEF BackupTyped
  <1> QED
    BY <1>1, BackupStarts, BackupTypes, PTL DEF BackupSpec

-----------------------------------------------------------------------------
(* No dump takes longer than a minute                                      *)

\* No dump takes longer than a minute.
Prompt == ~Flaw("slow")

\* Then one poll is at work, in the minute of the clock.
OnePoll ==
  \A p \in Polls : poll[p].pc # "idle" =>
    /\ polled = minute /\ poll[p].now = minute
    /\ \A q \in Polls \ {p} : poll[q].pc = "idle"

\* Baselines come first, and are given to schedules that have none.
Baselines ==
  \A p \in Polls :
    /\ poll[p].pc # "start" => poll[p].new = {}
    /\ \A s \in poll[p].new : row[s].last = 0

\* What is written to has a writer; who prunes has a complete dump of this minute,
\* and it is the latest file.
Dumping ==
  /\ \A i \in DOMAIN files : files[i].at <= minute
  /\ \A i \in DOMAIN files, p \in Polls : files[i].by = p => poll[p].pc = "dump" /\ files[i].at = minute
  /\ \A p \in Polls : \A i, j \in Written(p) : i = j
  /\ \A p \in Polls : poll[p].pc = "dump" => Written(p) # {}
  /\ \A p \in Polls : poll[p].pc = "prune" =>
       Len(files) > 0 /\ files[Len(files)].whole /\ files[Len(files)].at = minute

BackupInv == OnePoll /\ Baselines /\ Dumping

\* What a step does to the polls.
LEMMA PollMoves ==
  ASSUME BackupTyped, NEW p \in Polls, PollStep(p) \/ WriteDump(p)
  PROVE /\ UNCHANGED <<polled, minute, flaws>> /\ poll[p].pc # "idle"
        /\ \A q \in Polls \ {p} : poll'[q] = poll[q]
        /\ poll'[p].pc # "idle" => poll'[p].now = poll[p].now
  <1> USE DEF BackupTyped, BackupTypeOK
  <1>1. CASE \E s \in Schedules : SetBaseline(p, s) \/ NoteRun(p, s)
    BY <1>1 DEF SetBaseline, NoteRun
  <1>2. CASE NothingDue(p) \/ FailDump(p) \/ PruneDumps(p)
    BY <1>2 DEF NothingDue, FailDump, PruneDumps, NoPolling
  <1>3. CASE StartDump(p) \/ EndDump(p)
    BY <1>3 DEF StartDump, EndDump
  <1>4. CASE WriteDump(p)
    BY <1>4 DEF WriteDump
  <1> QED
    BY <1>1, <1>2, <1>3, <1>4 DEF PollStep

LEMMA OnePollKept ==
  ASSUME BackupTyped, BackupInv, Prompt, BackupNext
  PROVE OnePoll'
  <1>1. CASE PassMinute
    BY <1>1 DEF PassMinute, OnePoll, BackupInv, Prompt
  <1>2. CASE \E s \in Schedules, on \in BOOLEAN, cron \in Crons, keep \in Counts : SetSchedule(s, on, cron, keep)
    BY <1>2 DEF SetSchedule, OnePoll, BackupInv
  <1>3. ASSUME NEW p \in Polls, StartPoll(p) PROVE OnePoll'
    <2>1. AllIdle
      BY <1>3 DEF StartPoll, AllIdle, OnePoll, BackupInv
    <2>2. /\ polled' = minute /\ minute' = minute
          /\ \A q \in Polls \ {p} : poll'[q] = poll[q]
          /\ poll'[p] = poll[p] \/ poll'[p].now = minute
      BY <1>3 DEF StartPoll, BackupTyped, BackupTypeOK
    <2> QED
      BY <2>1, <2>2 DEF OnePoll, AllIdle
  <1>4. ASSUME NEW p \in Polls, PollStep(p) \/ WriteDump(p) PROVE OnePoll'
    BY <1>4, PollMoves DEF OnePoll, BackupInv
  <1>5. CASE RestartScheduler
    BY <1>5 DEF RestartScheduler, OnePoll, NoPolling
  <1> QED
    BY <1>1, <1>2, <1>3, <1>4, <1>5 DEF BackupNext

LEMMA BaselinesKept ==
  ASSUME BackupTyped, BackupInv, Prompt, BackupNext
  PROVE Baselines'
  <1>0. row \in [Schedules -> Row]
    BY DEF BackupTyped, BackupTypeOK
  <1>1. CASE PassMinute
    BY <1>1 DEF PassMinute, Baselines, BackupInv
  <1>2. ASSUME NEW s \in Schedules, NEW on \in BOOLEAN, NEW cron \in Crons, NEW keep \in Counts,
               SetSchedule(s, on, cron, keep)
        PROVE Baselines'
    <2>1. \A r \in Schedules : row'[r].last = row[r].last
      BY <1>0, <1>2 DEF SetSchedule
    <2>2. poll' = poll /\ \A p \in Polls : poll[p].new \subseteq Schedules
      BY <1>2 DEF SetSchedule, BackupTyped, BackupTypeOK
    <2> QED
      BY <2>1, <2>2 DEF Baselines, BackupInv
  <1>3. ASSUME NEW p \in Polls, StartPoll(p) PROVE Baselines'
    <2>1. /\ row' = row /\ \A q \in Polls \ {p} : poll'[q] = poll[q]
          /\ \/ poll'[p] = poll[p]
             \/ poll'[p].pc = "start" /\ poll'[p].new = {s \in Enabled : row[s].last = 0}
      BY <1>3 DEF StartPoll, BackupTyped, BackupTypeOK
    <2> QED
      BY <2>1 DEF Baselines, BackupInv
  <1>4. ASSUME NEW p \in Polls, PollStep(p) \/ WriteDump(p) PROVE Baselines'
    <2>1. \A q \in Polls \ {p} : poll'[q] = poll[q] /\ poll[q].new = {}
      BY <1>4, PollMoves DEF OnePoll, Baselines, BackupInv
    <2>2. ASSUME NEW s \in Schedules, SetBaseline(p, s) PROVE Baselines'
      <3>1. poll'[p].new = poll[p].new \ {s} /\ poll'[p].pc = "start"
        BY <2>2 DEF SetBaseline, BackupTyped, BackupTypeOK
      <3>2. \A r \in Schedules \ {s} : row'[r] = row[r]
        BY <1>0, <2>2 DEF SetBaseline, Ran
      <3>3. poll[p].new \subseteq Schedules
        BY DEF BackupTyped, BackupTypeOK
      <3> QED
        BY <2>1, <3>1, <3>2, <3>3 DEF Baselines, BackupInv
    <2>3. ASSUME NEW s \in Schedules, NoteRun(p, s) PROVE Baselines'
      <3>1. poll'[p].new = {}
        BY <2>3 DEF NoteRun, BackupTyped, BackupTypeOK, Baselines, BackupInv
      <3> QED
        BY <2>1, <3>1 DEF Baselines
    <2>4. CASE NothingDue(p) \/ StartDump(p) \/ EndDump(p) \/ FailDump(p) \/ PruneDumps(p) \/ WriteDump(p)
      <3>0. row' = row
        BY <2>4 DEF NothingDue, StartDump, EndDump, FailDump, PruneDumps, WriteDump
      <3>1. poll'[p].new = {}
        <4> USE DEF BackupTyped, BackupTypeOK, Baselines, BackupInv
        <4>1. CASE NothingDue(p) \/ FailDump(p) \/ PruneDumps(p)
          BY <4>1 DEF NothingDue, FailDump, PruneDumps, NoPolling
        <4>2. CASE StartDump(p)
          BY <4>2 DEF StartDump
        <4>3. CASE EndDump(p) \/ WriteDump(p)
          BY <4>3 DEF EndDump, WriteDump
        <4> QED
          BY <2>4, <4>1, <4>2, <4>3
      <3> QED
        BY <2>1, <3>1 DEF Baselines
    <2> QED
      BY <1>4, <2>2, <2>3, <2>4 DEF PollStep
  <1>5. CASE RestartScheduler
    BY <1>5 DEF RestartScheduler, Baselines, NoPolling
  <1> QED
    BY <1>1, <1>2, <1>3, <1>4, <1>5 DEF BackupNext

-----------------------------------------------------------------------------
\* Taking an element out of a sequence of length n and putting another at its end.
Moving(f, n, k, x) == SubSeq(f, 1, k - 1) \o SubSeq(f, k + 1, n) \o <<x>>

LEMMA MovedLast ==
  ASSUME NEW S, NEW f \in Seq(S), NEW n \in Nat, n = Len(f), NEW k \in 1..n, NEW x \in S,
         NEW g, g = Moving(f, n, k, x)
  PROVE /\ DOMAIN g = 1..n /\ Len(g) = n /\ g[n] = x
        /\ \A i \in 1..n - 1 : (i < k => g[i] = f[i]) /\ (~(i < k) => g[i] = f[i + 1])
  <1>1. PICK a : a = SubSeq(f, 1, k - 1)
    OBVIOUS
  <1>2. PICK b : b = SubSeq(f, k + 1, n)
    OBVIOUS
  <1>3. /\ a \in Seq(S) /\ Len(a) = k - 1
        /\ \A i \in 1..k - 1 : a[i] = f[i]
    BY <1>1, SubSeqProperties
  <1>4. /\ b \in Seq(S) /\ Len(b) = n - k
        /\ \A i \in 1..n - k : b[i] = f[k + i]
    BY <1>2, SubSeqProperties
  <1>5. PICK c : c = a \o b
    OBVIOUS
  <1>6. /\ c \in Seq(S) /\ Len(c) = n - 1
        /\ \A i \in 1..Len(a) + Len(b) : c[i] = IF i <= Len(a) THEN a[i] ELSE b[i - Len(a)]
    <2>1. /\ a \o b \in Seq(S) /\ Len(a \o b) = Len(a) + Len(b)
          /\ \A i \in 1..Len(a) + Len(b) : (a \o b)[i] = IF i <= Len(a) THEN a[i] ELSE b[i - Len(a)]
      BY <1>3, <1>4, ConcatProperties, Zenon
    <2>2. (k - 1) + (n - k) = n - 1
      OBVIOUS
    <2>3. Len(a) + Len(b) = n - 1
      BY <1>3, <1>4, <2>2, Zenon
    <2>4. c \in Seq(S) /\ Len(c) = Len(a) + Len(b)
      BY <1>5, <2>1, Zenon
    <2>5. \A i \in 1..Len(a) + Len(b) : c[i] = IF i <= Len(a) THEN a[i] ELSE b[i - Len(a)]
      BY <1>5, <2>1, Zenon
    <2> QED
      BY <2>3, <2>4, <2>5, Zenon
  <1>7. \A i \in 1..n - 1 : IF i < k THEN c[i] = f[i] ELSE c[i] = f[i + 1]
    <2> SUFFICES ASSUME NEW i \in 1..n - 1 PROVE IF i < k THEN c[i] = f[i] ELSE c[i] = f[i + 1]
      OBVIOUS
    <2>1. i \in 1..Len(a) + Len(b)
      BY <1>3, <1>4
    <2>2. CASE i < k
      <3>1. c[i] = a[i] /\ i \in 1..k - 1
        BY <1>3, <1>6, <2>1, <2>2
      <3> QED
        BY <1>3, <2>2, <3>1
    <2>3. CASE ~(i < k)
      <3>1. c[i] = b[i - (k - 1)]
        <4>1. ~(i <= k - 1)
          BY <2>3
        <4>2. ~(i <= Len(a))
          BY <1>3, <4>1, Zenon
        <4>3. c[i] = b[i - Len(a)]
          BY <1>6, <2>1, <4>2, Zenon
        <4> QED
          BY <1>3, <4>3, Zenon
      <3>2. i - (k - 1) \in 1..n - k /\ k + (i - (k - 1)) = i + 1
        BY <2>3
      <3>3. b[i - (k - 1)] = f[k + (i - (k - 1))]
        BY <1>4, <3>2
      <3> QED
        BY <2>3, <3>1, <3>2, <3>3
    <2> QED
      BY <2>2, <2>3
  <1>8. g = c \o <<x>>
    BY <1>1, <1>2, <1>5, Zenon DEF Moving
  <1>9. /\ g \in Seq(S) /\ Len(g) = n /\ g[n] = x
        /\ \A i \in 1..n - 1 : g[i] = c[i]
    <2>1. PICK d : d = <<x>>
      OBVIOUS
    <2>2. d \in Seq(S) /\ Len(d) = 1 /\ d[1] = x
      BY <2>1
    <2>3. /\ c \o d \in Seq(S) /\ Len(c \o d) = Len(c) + Len(d)
          /\ \A i \in 1..Len(c) + Len(d) : (c \o d)[i] = IF i <= Len(c) THEN c[i] ELSE d[i - Len(c)]
      BY <1>6, <2>2, ConcatProperties, Zenon
    <2>4. /\ g \in Seq(S) /\ Len(g) = Len(c) + Len(d)
          /\ \A i \in 1..Len(c) + Len(d) : g[i] = IF i <= Len(c) THEN c[i] ELSE d[i - Len(c)]
      BY <1>8, <2>1, <2>3, Zenon
    <2>5. Len(c) = n - 1 /\ Len(d) = 1
      BY <1>6, <2>2, Zenon
    <2>6. g[n] = d[1]
      <3>1. n \in 1..(n - 1) + 1 /\ ~(n <= n - 1) /\ n - (n - 1) = 1
        OBVIOUS
      <3> QED
        BY <2>4, <2>5, <3>1
    <2>7. \A i \in 1..n - 1 : g[i] = c[i]
      <3> SUFFICES ASSUME NEW i \in 1..n - 1 PROVE g[i] = c[i]
        OBVIOUS
      <3>1. i \in 1..(n - 1) + 1 /\ i <= n - 1
        OBVIOUS
      <3>2. i \in 1..Len(c) + Len(d) /\ i <= Len(c)
        BY <2>5, <3>1, Zenon
      <3> QED
        BY <2>4, <3>2, Zenon
    <2>8. Len(g) = n
      <3>1. (n - 1) + 1 = n
        OBVIOUS
      <3> QED
        BY <2>4, <2>5, <3>1, Zenon
    <2>9. g[n] = x
      BY <2>2, <2>6, Zenon
    <2> QED
      BY <2>4, <2>7, <2>8, <2>9, Zenon
  <1>10. DOMAIN g = 1..n
    BY <1>9, LenProperties
  <1> QED
    BY <1>7, <1>9, <1>10

\* The file that is written to is the last one; the others are still there.
LEMMA TouchMoves ==
  ASSUME BackupTyped, NEW k \in DOMAIN files, NEW file \in File, Touch(k, file)
  PROVE /\ Len(files') = Len(files) /\ Len(files) > 0 /\ files'[Len(files')] = file
        /\ \A i \in DOMAIN files' : i = Len(files') \/ \E j \in DOMAIN files \ {k} : files'[i] = files[j]
        /\ \A j \in DOMAIN files \ {k} : \E i \in DOMAIN files' : files'[i] = files[j]
        /\ \E i \in DOMAIN files' : files'[i] = file
  <1>1. PICK n \in Nat : n = Len(files) /\ k \in 1..n /\ DOMAIN files = 1..n /\ files \in Seq(File)
    BY LenProperties DEF BackupTyped, BackupTypeOK, File
  <1>2. PICK f, g : f = files /\ g = files'
    OBVIOUS
  <1>3. /\ g = Moving(f, n, k, file)
        /\ f \in Seq(File) /\ n = Len(f)
    BY <1>1, <1>2, Zenon DEF Touch, Moving
  <1>4. /\ DOMAIN g = 1..n /\ Len(g) = n /\ g[n] = file
        /\ \A i \in 1..n - 1 : (i < k => g[i] = f[i]) /\ (~(i < k) => g[i] = f[i + 1])
    BY <1>1, <1>3, MovedLast
  <1>5. \A i \in 1..n : i = n \/ \E j \in 1..n : j # k /\ g[i] = f[j]
    <2> SUFFICES ASSUME NEW i \in 1..n, i # n PROVE \E j \in 1..n : j # k /\ g[i] = f[j]
      OBVIOUS
    <2>1. i \in 1..n - 1 /\ i + 1 \in 1..n
      BY <1>1
    <2>2. CASE i < k
      BY <1>1, <1>4, <2>1, <2>2
    <2>3. CASE ~(i < k)
      <3>1. i + 1 # k
        BY <1>1, <2>3
      <3> QED
        BY <1>4, <2>1, <2>3, <3>1
    <2> QED
      BY <2>2, <2>3
  <1>6. \A j \in 1..n : j # k => \E i \in 1..n : g[i] = f[j]
    <2> SUFFICES ASSUME NEW j \in 1..n, j # k PROVE \E i \in 1..n : g[i] = f[j]
      OBVIOUS
    <2>1. CASE j < k
      <3>1. j \in 1..n - 1
        BY <1>1, <2>1
      <3> QED
        BY <1>4, <2>1, <3>1
    <2>2. CASE ~(j < k)
      <3>1. j - 1 \in 1..n - 1 /\ ~(j - 1 < k) /\ (j - 1) + 1 = j /\ j - 1 \in 1..n
        BY <1>1, <2>2
      <3> QED
        BY <1>4, <3>1
    <2> QED
      BY <2>1, <2>2
  <1>7. n > 0 /\ n \in 1..n
    BY <1>1
  <1>8. /\ Len(g) = Len(f) /\ Len(f) > 0 /\ g[Len(g)] = file
        /\ \A i \in DOMAIN g : i = Len(g) \/ \E j \in DOMAIN f \ {k} : g[i] = f[j]
        /\ \A j \in DOMAIN f \ {k} : \E i \in DOMAIN g : g[i] = f[j]
        /\ \E i \in DOMAIN g : g[i] = file
    <2>1. DOMAIN f = 1..n
      BY <1>1, <1>2, Zenon
    <2>2. Len(g) = Len(f) /\ Len(f) > 0 /\ g[Len(g)] = file
      BY <1>3, <1>4, <1>7, Zenon
    <2>3. \A i \in DOMAIN g : i = Len(g) \/ \E j \in DOMAIN f \ {k} : g[i] = f[j]
      BY <1>4, <1>5, <2>1, Zenon
    <2>4. \A j \in DOMAIN f \ {k} : \E i \in DOMAIN g : g[i] = f[j]
      BY <1>4, <1>6, <2>1, Zenon
    <2>5. \E i \in DOMAIN g : g[i] = file
      BY <1>4, <1>7, Zenon
    <2> QED
      BY <2>2, <2>3, <2>4, <2>5, Zenon
  <1> QED
    BY <1>2, <1>8, Zenon

\* What is kept are the latest files.
LEMMA PrunedKeeps ==
  ASSUME BackupTyped, NEW count \in Nat, NEW G, G = Pruned(count), Len(files) > 0
  PROVE /\ \A i \in DOMAIN G : \E j \in DOMAIN files : G[i] = files[j]
        /\ \E i \in DOMAIN G : G[i] = files[Len(files)]
  <1> DEFINE n == Len(files)
  <1>1. files \in Seq(File) /\ n \in Nat /\ DOMAIN files = 1..n
    BY LenProperties DEF BackupTyped, BackupTypeOK, File
  <1>2. CASE count = 0 \/ n <= count
    BY <1>1, <1>2 DEF Pruned
  <1>3. CASE count # 0 /\ ~(n <= count)
    <2>1. G = SubSeq(files, n - count + 1, n) /\ n - count + 1 \in 1..n
      BY <1>1, <1>3 DEF Pruned
    <2>2. /\ G \in Seq(File) /\ Len(G) = count
          /\ \A i \in 1..count : G[i] = files[n - count + i]
      BY <1>1, <1>3, <2>1, SubSeqProperties
    <2>3. DOMAIN G = 1..count
      BY <2>2, LenProperties
    <2>4. \A i \in 1..count : n - count + i \in 1..n
      BY <1>1, <1>3
    <2>5. count \in 1..count /\ n - count + count = n
      BY <1>1, <1>3
    <2> QED
      BY <1>1, <2>2, <2>3, <2>4, <2>5
  <1> QED
    BY <1>2, <1>3

-----------------------------------------------------------------------------
\* What a step does to the files.
LEMMA FilesKept ==
  ASSUME BackupTyped, NEW t, Made(t), BackupNext,
         \A p \in Polls : ~PruneDumps(p)
  PROVE Made(t)'
  <1>0. /\ files \in Seq(File) /\ Len(files) \in Nat /\ DOMAIN files = 1..Len(files)
    BY LenProperties DEF BackupTyped, BackupTypeOK, File
  <1>1. PICK j \in DOMAIN files : files[j].whole /\ files[j].at >= t
    BY DEF Made
  <1>2. CASE UNCHANGED files
    BY <1>2 DEF Made
  <1>3. ASSUME NEW p \in Polls, StartDump(p) PROVE Made(t)'
    <2>1. PICK f : f = [at |-> poll[p].now, by |-> p, whole |-> FALSE]
      OBVIOUS
    <2>2. f \in File
      BY <1>3, <2>1 DEF StartDump, BackupTyped, File
    <2>3. files' = Append(files, f)
      BY <1>3, <2>1 DEF StartDump
    <2>4. files' \in Seq(File) /\ Len(files') = Len(files) + 1 /\ \A i \in 1..Len(files) : files'[i] = files[i]
      BY <1>0, <2>2, <2>3, AppendProperties
    <2>5. j \in DOMAIN files' /\ files'[j] = files[j]
      BY <1>0, <2>4, LenProperties
    <2> QED
      BY <1>1, <2>5 DEF Made
  <1>4. ASSUME NEW k \in DOMAIN files, NEW file, Touch(k, file),
               file = files[k] \/ file = [files[k] EXCEPT !.by = NoPoll, !.whole = TRUE]
        PROVE Made(t)'
    <2>1. files[k] \in File
      BY OwnedFiles DEF BackupTyped
    <2>2. file \in File /\ file.at = files[k].at /\ (files[k].whole => file.whole)
      BY <1>4, <2>1 DEF File
    <2>3. /\ \A i \in DOMAIN files \ {k} : \E l \in DOMAIN files' : files'[l] = files[i]
          /\ \E l \in DOMAIN files' : files'[l] = file
      BY <1>4, <2>2, TouchMoves
    <2>4. CASE j = k
      BY <1>1, <2>2, <2>3, <2>4 DEF Made
    <2>5. CASE j # k
      BY <1>1, <2>3, <2>5 DEF Made
    <2> QED
      BY <2>4, <2>5
  <1>5. ASSUME NEW p \in Polls, EndDump(p) \/ WriteDump(p) PROVE Made(t)'
    BY <1>2, <1>4, <1>5 DEF EndDump, WriteDump, Written
  <1>6. ASSUME DOMAIN files' = DOMAIN files,
               \A i \in DOMAIN files : files'[i] = files[i] \/ files'[i] = [files[i] EXCEPT !.by = NoPoll]
        PROVE Made(t)'
    <2>1. files[j] \in File
      BY OwnedFiles DEF BackupTyped
    <2>2. files'[j].whole = files[j].whole /\ files'[j].at = files[j].at
      BY <1>6, <2>1 DEF File
    <2> QED
      BY <1>1, <1>6, <2>2 DEF Made
  <1>7. ASSUME NEW p \in Polls, FailDump(p) PROVE Made(t)'
    BY <1>6, <1>7 DEF FailDump, Closed
  <1>8. CASE RestartScheduler
    BY <1>6, <1>8 DEF RestartScheduler
  <1>9. ASSUME NEW p \in Polls, StartPoll(p) \/ NothingDue(p) \/ \E s \in Schedules : SetBaseline(p, s) \/ NoteRun(p, s)
        PROVE Made(t)'
    BY <1>2, <1>9 DEF StartPoll, NothingDue, SetBaseline, NoteRun
  <1>10. CASE PassMinute \/ \E s \in Schedules, on \in BOOLEAN, cron \in Crons, keep \in Counts : SetSchedule(s, on, cron, keep)
    BY <1>2, <1>10 DEF PassMinute, SetSchedule
  <1> QED
    BY <1>3, <1>5, <1>7, <1>8, <1>9, <1>10 DEF BackupNext, PollStep

LEMMA DumpingKept ==
  ASSUME BackupTyped, BackupInv, Prompt, BackupNext
  PROVE Dumping'
  <1>0. /\ files \in Seq(File) /\ Len(files) \in Nat /\ DOMAIN files = 1..Len(files)
        /\ \A i \in DOMAIN files : files[i] \in File
        /\ minute \in 1..MaxMinute /\ NoPoll \notin Polls
    BY LenProperties, OwnedFiles, BackupAssumption DEF BackupTyped, BackupTypeOK, File
  <1>1. CASE PassMinute
    <2>1. /\ \A p \in Polls : poll[p].pc = "idle"
          /\ minute' = minute + 1 /\ files' = files /\ poll' = poll
      BY <1>1 DEF PassMinute, Prompt
    <2>2. \A i \in DOMAIN files : files[i].at <= minute + 1
      <3>1. \A i \in DOMAIN files : files[i].at \in 1..MaxMinute
        BY <1>0 DEF File
      <3> QED
        BY <1>0, <3>1 DEF Dumping, BackupInv
    <2> QED
      BY <2>1, <2>2 DEF Dumping, Written, BackupInv
  <1>2. CASE \E s \in Schedules, on \in BOOLEAN, cron \in Crons, keep \in Counts : SetSchedule(s, on, cron, keep)
    BY <1>2 DEF SetSchedule, Dumping, Written, BackupInv
  <1>3. ASSUME files' = files, minute' = minute,
               \A p \in Polls : poll'[p].pc = poll[p].pc \/ {poll[p].pc, poll'[p].pc} \subseteq {"idle", "start"}
        PROVE Dumping'
    BY <1>3 DEF Dumping, Written, BackupInv
  <1>4. ASSUME NEW p \in Polls, StartPoll(p) PROVE Dumping'
    <2>1. /\ files' = files /\ minute' = minute /\ poll[p].pc = "idle"
          /\ \A q \in Polls \ {p} : poll'[q] = poll[q]
          /\ poll'[p].pc \in {"idle", "start"}
      BY <1>4 DEF StartPoll, BackupTyped, BackupTypeOK
    <2> QED
      BY <1>3, <2>1
  <1>5. ASSUME NEW p \in Polls, PollStep(p) \/ WriteDump(p) PROVE Dumping'
    <2>0. /\ minute' = minute /\ poll[p].now = minute
          /\ \A q \in Polls \ {p} : poll'[q] = poll[q] /\ poll[q].pc = "idle"
      BY <1>5, PollMoves DEF OnePoll, BackupInv
    <2>1. CASE NothingDue(p) \/ \E s \in Schedules : SetBaseline(p, s) \/ NoteRun(p, s)
      <3>1. /\ files' = files
            /\ poll'[p].pc = poll[p].pc \/ {poll[p].pc, poll'[p].pc} \subseteq {"idle", "start"}
        BY <2>1 DEF NothingDue, SetBaseline, NoteRun, NoPolling, BackupTyped, BackupTypeOK
      <3> QED
        BY <1>3, <2>0, <3>1
    <2>2. CASE StartDump(p)
      <3>1. PICK f : f = [at |-> poll[p].now, by |-> p, whole |-> FALSE]
        OBVIOUS
      <3>2. f \in File /\ f.at = minute /\ f.by = p
        BY <2>0, <2>2, <3>1 DEF StartDump, BackupTyped, File
      <3>3. files' = Append(files, f)
        BY <2>2, <3>1 DEF StartDump
      <3>4. /\ DOMAIN files' = 1..Len(files) + 1 /\ files'[Len(files) + 1] = f
            /\ \A i \in 1..Len(files) : files'[i] = files[i]
        BY <1>0, <3>2, <3>3, AppendProperties, LenProperties
      <3>5. poll'[p].pc = "dump" /\ poll[p].pc = "start"
        BY <2>2 DEF StartDump, BackupTyped, BackupTypeOK
      <3>6. \A i \in DOMAIN files, q \in Polls : files[i].by # q
        BY <2>0, <3>5 DEF Dumping, BackupInv
      <3>7. \A i \in DOMAIN files' : i = Len(files) + 1 \/ i \in DOMAIN files
        BY <1>0, <3>4
      <3>8. Len(files) + 1 \in DOMAIN files'
        BY <1>0, <3>4
      <3>9. \A i \in DOMAIN files' : files'[i] = f \/ (i \in DOMAIN files /\ files'[i] = files[i])
        BY <1>0, <3>4, <3>7
      <3>10. \A i \in DOMAIN files' : files'[i].at <= minute'
        BY <1>0, <2>0, <3>2, <3>9 DEF Dumping, BackupInv
      <3>11. \A i \in DOMAIN files', q \in Polls :
               files'[i].by = q => i = Len(files) + 1 /\ q = p /\ files'[i].at = minute'
        <4> SUFFICES ASSUME NEW i \in DOMAIN files', NEW q \in Polls, files'[i].by = q
                     PROVE i = Len(files) + 1 /\ q = p /\ files'[i].at = minute'
          OBVIOUS
        <4>1. i \notin DOMAIN files
          BY <1>0, <3>4, <3>6
        <4> QED
          BY <2>0, <3>2, <3>4, <3>7, <4>1
      <3>12. \A q \in Polls : \A i, j \in Written(q)' : i = j
        BY <3>11 DEF Written
      <3>13. Written(p)' # {}
        BY <3>2, <3>4, <3>8 DEF Written
      <3> QED
        BY <2>0, <3>5, <3>10, <3>11, <3>12, <3>13 DEF Dumping
    <2>3. ASSUME NEW k \in Written(p), NEW file, Touch(k, file), poll[p].pc = "dump",
                 \/ file = files[k] /\ poll'[p].pc = "dump"
                 \/ file = [files[k] EXCEPT !.by = NoPoll, !.whole = TRUE] /\ poll'[p].pc = "prune"
          PROVE Dumping'
      <3>1. k \in DOMAIN files /\ files[k].by = p /\ files[k].at = minute /\ files[k] \in File
        BY <1>0 DEF Written, Dumping, BackupInv
      <3>2. /\ file \in File /\ file.at = minute
            /\ \/ poll'[p].pc = "dump" /\ file.by = p
               \/ poll'[p].pc = "prune" /\ file.by = NoPoll /\ file.whole
        <4>1. CASE file = files[k] /\ poll'[p].pc = "dump"
          BY <3>1, <4>1
        <4>2. CASE file = [files[k] EXCEPT !.by = NoPoll, !.whole = TRUE] /\ poll'[p].pc = "prune"
          <5>1. file \in File /\ file.at = files[k].at /\ file.by = NoPoll /\ file.whole
            BY <3>1, <4>2 DEF File
          <5> QED
            BY <3>1, <4>2, <5>1
        <4> QED
          BY <2>3, <4>1, <4>2
      <3>3. /\ Len(files') > 0 /\ files'[Len(files')] = file
            /\ \A i \in DOMAIN files' : i = Len(files') \/ \E j \in DOMAIN files \ {k} : files'[i] = files[j]
            /\ \E i \in DOMAIN files' : files'[i] = file
        BY <2>3, <3>1, <3>2, TouchMoves
      <3>4. \A j \in DOMAIN files \ {k}, q \in Polls : files[j].by # q
        <4> SUFFICES ASSUME NEW j \in DOMAIN files \ {k}, files[j].by \in Polls PROVE FALSE
          OBVIOUS
        <4>1. poll[files[j].by].pc = "dump"
          BY DEF Dumping, BackupInv
        <4>2. files[j].by = p
          BY <2>0, <4>1
        <4> QED
          BY <4>2 DEF Dumping, Written, BackupInv
      <3>5. \A i \in DOMAIN files' : files'[i].at <= minute'
        BY <1>0, <2>0, <3>2, <3>3 DEF Dumping, BackupInv
      <3>6. \A i \in DOMAIN files', q \in Polls :
              files'[i].by = q => i = Len(files') /\ q = p /\ files'[i].at = minute' /\ poll'[p].pc = "dump"
        <4> SUFFICES ASSUME NEW i \in DOMAIN files', NEW q \in Polls, files'[i].by = q
                     PROVE i = Len(files') /\ q = p /\ files'[i].at = minute' /\ poll'[p].pc = "dump"
          OBVIOUS
        <4>1. i = Len(files')
          BY <3>3, <3>4
        <4> QED
          BY <1>0, <2>0, <3>2, <3>3, <4>1
      <3>7. \A q \in Polls : \A i, j \in Written(q)' : i = j
        BY <3>6 DEF Written
      <3>8. poll'[p].pc = "dump" => Written(p)' # {}
        BY <3>2, <3>3 DEF Written
      <3>9. poll'[p].pc = "prune" =>
              Len(files') > 0 /\ files'[Len(files')].whole /\ files'[Len(files')].at = minute'
        BY <2>0, <3>2, <3>3
      <3> QED
        BY <2>0, <3>5, <3>6, <3>7, <3>8, <3>9 DEF Dumping
    <2>4. CASE WriteDump(p)
      <3>1. poll'[p].pc = "dump" /\ poll[p].pc = "dump"
        BY <2>4 DEF WriteDump
      <3>2. PICK k \in Written(p) : Touch(k, files[k])
        BY <2>4 DEF WriteDump
      <3> QED
        BY <2>3, <3>1, <3>2
    <2>5. CASE EndDump(p)
      <3>1. poll'[p].pc = "prune" /\ poll[p].pc = "dump"
        BY <2>5 DEF EndDump, BackupTyped, BackupTypeOK
      <3>2. Written(p) # {}
        BY <3>1 DEF Dumping, BackupInv
      <3>3. PICK k \in Written(p) : Touch(k, [files[k] EXCEPT !.by = NoPoll, !.whole = TRUE])
        BY <2>5, <3>2 DEF EndDump
      <3> QED
        BY <2>3, <3>1, <3>3
    <2>6. ASSUME poll'[p].pc = "idle",
                 \A i \in DOMAIN files' : \E j \in DOMAIN files :
                   files'[i].at = files[j].at /\ files'[i].by # p
                     /\ (files'[i].by = files[j].by \/ files'[i].by = NoPoll)
          PROVE Dumping'
      <3>1. \A i \in DOMAIN files', q \in Polls : files'[i].by # q
        <4> SUFFICES ASSUME NEW i \in DOMAIN files', files'[i].by \in Polls PROVE FALSE
          OBVIOUS
        <4>1. PICK j \in DOMAIN files : files'[i].by # p /\ files'[i].by = files[j].by
          BY <1>0, <2>6
        <4>2. poll[files[j].by].pc = "dump"
          BY <4>1 DEF Dumping, BackupInv
        <4> QED
          BY <2>0, <4>1, <4>2
      <3>2. \A i \in DOMAIN files' : files'[i].at <= minute'
        BY <2>0, <2>6 DEF Dumping, BackupInv
      <3> QED
        BY <2>0, <2>6, <3>1, <3>2 DEF Dumping, Written
    <2>7. CASE FailDump(p)
      <3>1. poll'[p].pc = "idle" /\ files' = Closed(p)
        BY <2>7 DEF FailDump, NoPolling, BackupTyped, BackupTypeOK
      <3>2. \A i \in DOMAIN files : [files[i] EXCEPT !.by = NoPoll].at = files[i].at
                                    /\ [files[i] EXCEPT !.by = NoPoll].by = NoPoll
        BY <1>0 DEF File
      <3>3. DOMAIN files' = DOMAIN files /\ \A i \in DOMAIN files :
              files'[i] = IF files[i].by = p THEN [files[i] EXCEPT !.by = NoPoll] ELSE files[i]
        BY <3>1 DEF Closed
      <3>4. \A i \in DOMAIN files : /\ files'[i].at = files[i].at /\ files'[i].by # p
                                    /\ files'[i].by = files[i].by \/ files'[i].by = NoPoll
        BY <1>0, <3>2, <3>3
      <3> QED
        BY <2>6, <3>1, <3>3, <3>4
    <2>8. CASE PruneDumps(p)
      <3>1. /\ poll'[p].pc = "idle" /\ poll[p].pc = "prune" /\ poll[p].keep \in Nat
            /\ files' = Pruned(poll[p].keep)
        BY <2>8 DEF PruneDumps, NoPolling, BackupTyped, BackupTypeOK
      <3>2. Len(files) > 0
        BY <3>1 DEF Dumping, BackupInv
      <3>3. \A i \in DOMAIN files' : \E j \in DOMAIN files : files'[i] = files[j]
        BY <3>1, <3>2, PrunedKeeps
      <3>4. \A j \in DOMAIN files : files[j].by # p
        BY <3>1 DEF Dumping, BackupInv
      <3>5. \A i \in DOMAIN files' : \E j \in DOMAIN files :
              files'[i].at = files[j].at /\ files'[i].by # p /\ files'[i].by = files[j].by
        BY <3>3, <3>4
      <3> QED
        BY <2>6, <3>1, <3>5
    <2> QED
      BY <1>5, <2>1, <2>2, <2>4, <2>5, <2>7, <2>8 DEF PollStep
  <1>6. CASE RestartScheduler
    <2>1. /\ \A p \in Polls : poll'[p].pc = "idle"
          /\ minute' = minute /\ files' = [i \in DOMAIN files |-> [files[i] EXCEPT !.by = NoPoll]]
      BY <1>6 DEF RestartScheduler, NoPolling
    <2>2. \A i \in DOMAIN files : [files[i] EXCEPT !.by = NoPoll].at = files[i].at
                                  /\ [files[i] EXCEPT !.by = NoPoll].by = NoPoll
      BY <1>0 DEF File
    <2>3. DOMAIN files' = DOMAIN files /\ \A i \in DOMAIN files : files'[i].at = files[i].at /\ files'[i].by = NoPoll
      BY <2>1, <2>2
    <2>4. \A i \in DOMAIN files', p \in Polls : files'[i].by # p
      BY <1>0, <2>3
    <2>5. \A i \in DOMAIN files' : files'[i].at <= minute'
      BY <2>1, <2>3 DEF Dumping, BackupInv
    <2> QED
      BY <2>1, <2>4, <2>5 DEF Dumping, Written
  <1> QED
    BY <1>1, <1>2, <1>4, <1>5, <1>6 DEF BackupNext

BackupIInv == BackupTyped /\ (Prompt => BackupInv)

LEMMA BackupInvariant == BackupSpec => []BackupIInv
  <1>1. BackupInit => BackupIInv
    <2> SUFFICES ASSUME BackupInit PROVE BackupInv
      BY BackupStarts DEF BackupIInv
    <2>1. /\ \A p \in Polls : poll[p] = NoPolling
          /\ Len(files) = 0 /\ DOMAIN files = {}
      BY DEF BackupInit
    <2>2. NoPolling.pc = "idle" /\ NoPolling.new = {}
      BY DEF NoPolling
    <2> QED
      BY <2>1, <2>2 DEF BackupInv, OnePoll, Baselines, Dumping, Written
  <1>2. ASSUME BackupIInv, [BackupNext]_backupVars PROVE (Prompt => BackupInv)'
    <2>1. CASE UNCHANGED backupVars
      BY <1>2, <2>1 DEF BackupIInv, backupVars, Prompt, Flaw, BackupInv, OnePoll, Baselines, Dumping, Written
    <2>2. CASE BackupNext
      <3>1. flaws' = flaws
        BY <2>2 DEF BackupNext, PollStep, PassMinute, SetSchedule, StartPoll, SetBaseline, NoteRun, NothingDue,
                    StartDump, EndDump, FailDump, PruneDumps, WriteDump, RestartScheduler
      <3>2. Prompt' => Prompt
        BY <3>1 DEF Prompt, Flaw
      <3> QED
        BY <1>2, <2>2, <3>2, OnePollKept, BaselinesKept, DumpingKept DEF BackupIInv, BackupInv
    <2> QED
      BY <1>2, <2>1, <2>2
  <1>3. BackupSpec => []BackupTyped
    BY BackupStarts, BackupTypes, PTL DEF BackupSpec
  <1>4. BackupTyped /\ (Prompt => BackupInv) => BackupIInv
    BY DEF BackupIInv
  <1>5. BackupTyped' /\ (Prompt => BackupInv)' => BackupIInv'
    BY DEF BackupIInv
  <1>6. BackupIInv /\ [BackupNext]_backupVars => (Prompt => BackupInv)'
    BY <1>2
  <1> QED
    BY <1>1, <1>3, <1>4, <1>5, <1>6, PTL DEF BackupSpec

-----------------------------------------------------------------------------
\* The minutes that schedules may name.
Minutes == UNION Crons

LEMMA MinutesAre == Minutes \subseteq 1..MaxMinute
  BY BackupAssumption DEF Minutes

LEMMA DumpsKept ==
  ASSUME BackupTyped, BackupInv, BackupNext, NEW t \in Minutes, Made(t)
  PROVE Made(t)'
  <1>1. ASSUME NEW p \in Polls, PruneDumps(p) PROVE Made(t)'
    <2>1. poll[p].pc = "prune" /\ poll[p].keep \in Nat /\ files' = Pruned(poll[p].keep)
      BY <1>1 DEF PruneDumps, BackupTyped, BackupTypeOK
    <2>2. Len(files) > 0 /\ files[Len(files)].whole /\ files[Len(files)].at = minute
      BY <2>1 DEF Dumping, BackupInv
    <2>3. PICK i \in DOMAIN files' : files'[i] = files[Len(files)]
      BY <2>1, <2>2, PrunedKeeps
    <2>4. PICK j \in DOMAIN files : files[j].at >= t /\ files[j].at <= minute /\ files[j] \in File
      BY OwnedFiles DEF Made, Dumping, BackupInv, BackupTyped
    <2>5. minute >= t
      <3>1. files[j].at \in Int /\ minute \in Int /\ t \in Int
        BY <2>4, MinutesAre DEF File, BackupTyped, BackupTypeOK
      <3> QED
        BY <2>4, <3>1
    <2> QED
      BY <2>2, <2>3, <2>5 DEF Made
  <1> QED
    BY <1>1, FilesKept

\* Only a run that is noted takes the debt away, and then there is the dump.
LEMMA DueStays ==
  ASSUME BackupTyped, BackupInv, BackupNext, NEW s \in Schedules, NEW t \in Minutes, Owed(s, t),
         s \in Enabled', t \in row'[s].cron
  PROVE Owed(s, t)' \/ Made(t)'
  <1>0. /\ row \in [Schedules -> Row] /\ t \in Int /\ minute \in Int /\ t <= minute
        /\ row[s].last \in 1..t - 1
    BY MinutesAre DEF Owed, BackupTyped, BackupTypeOK
  <1>1. ASSUME minute' \in {minute, minute + 1}, row'[s].last = row[s].last PROVE Owed(s, t)'
    <2>1. t <= minute'
      BY <1>0, <1>1
    <2> QED
      BY <1>0, <1>1, <2>1 DEF Owed
  <1>2. ASSUME NEW p \in Polls, NEW r \in Schedules, NoteRun(p, r) PROVE Owed(s, t)' \/ Made(t)'
    <2>1. /\ poll[p].pc = "prune" /\ files' = files /\ minute' = minute
      BY <1>2 DEF NoteRun
    <2>2. Len(files) > 0 /\ files[Len(files)].whole /\ files[Len(files)].at = minute
      BY <2>1 DEF Dumping, BackupInv
    <2>3. Len(files) \in DOMAIN files
      BY <2>2, LenProperties DEF BackupTyped, BackupTypeOK
    <2> QED
      BY <1>0, <2>1, <2>2, <2>3 DEF Made
  <1>3. ASSUME NEW p \in Polls, NEW r \in Schedules, SetBaseline(p, r) PROVE Owed(s, t)' \/ Made(t)'
    <2>1. row[r].last = 0 /\ minute' = minute
      BY <1>3 DEF SetBaseline, Baselines, BackupInv
    <2>2. r # s
      BY <1>0, <2>1
    <2>3. row'[s] = row[s]
      BY <1>0, <1>3, <2>2 DEF SetBaseline, Ran
    <2> QED
      BY <1>1, <2>1, <2>3
  <1>4. ASSUME NEW r \in Schedules, NEW on \in BOOLEAN, NEW cron \in Crons, NEW keep \in Counts,
               SetSchedule(r, on, cron, keep)
        PROVE Owed(s, t)' \/ Made(t)'
    <2>1. row'[s].last = row[s].last /\ minute' = minute
      BY <1>0, <1>4 DEF SetSchedule
    <2> QED
      BY <1>1, <2>1
  <1>5. CASE PassMinute
    BY <1>1, <1>5 DEF PassMinute
  <1>6. ASSUME NEW p \in Polls, StartPoll(p) \/ WriteDump(p) \/ NothingDue(p) \/ StartDump(p)
                                \/ EndDump(p) \/ FailDump(p) \/ PruneDumps(p)
        PROVE Owed(s, t)' \/ Made(t)'
    BY <1>1, <1>6 DEF StartPoll, WriteDump, NothingDue, StartDump, EndDump, FailDump, PruneDumps
  <1>7. CASE RestartScheduler
    BY <1>1, <1>7 DEF RestartScheduler
  <1> QED
    BY <1>2, <1>3, <1>4, <1>5, <1>6, <1>7 DEF BackupNext, PollStep

\* While no dump takes longer than a minute, the dump that a time of a schedule
\* asked for is never taken away by a later step: what a poll prunes leaves its own
\* dump, and that is as late (run_scheduled_backups, prune_scheduled_backups).
THEOREM DumpsStay ==
  BackupSpec => [][Prompt => \A t \in Minutes : Made(t) => Made(t)']_backupVars
  <1>1. BackupIInv /\ [BackupNext]_backupVars => [Prompt => \A t \in Minutes : Made(t) => Made(t)']_backupVars
    BY DumpsKept DEF BackupIInv
  <1> QED
    BY <1>1, BackupInvariant, PTL DEF BackupSpec

\* And then a backup that is due stays due, over failures and restarts, until there
\* is a complete dump made since then, or an administrator changes the schedule: a
\* run is never noted without one (update_scheduled_backup_last_run).
THEOREM DueTillMade ==
  BackupSpec => [][Prompt => \A s \in Schedules, t \in Minutes :
                     Owed(s, t) /\ s \in Enabled' /\ t \in row'[s].cron => Owed(s, t)' \/ Made(t)']_backupVars
  <1>1. BackupIInv /\ [BackupNext]_backupVars =>
          [Prompt => \A s \in Schedules, t \in Minutes :
             Owed(s, t) /\ s \in Enabled' /\ t \in row'[s].cron => Owed(s, t)' \/ Made(t)']_backupVars
    BY DueStays DEF BackupIInv
  <1> QED
    BY <1>1, BackupInvariant, PTL DEF BackupSpec

-----------------------------------------------------------------------------
(* The parts side by side (MCServer)                                       *)

LEMMA ServerStep ==
  [MCNext]_allVars =>
    /\ [Next]_vars /\ [NoticeNext]_noticeVars /\ [DeviceNext]_deviceVars
    /\ [ListenNext]_listenVars /\ [BackupNext]_backupVars /\ [SetupNext]_setupVars
  BY DEF MCNext, allVars

\* Each part, beside the others, behaves as it does alone, so that what is
\* proved of it holds in the runs of MCServer.
THEOREM ServerParts ==
  MCSpec => Spec /\ NoticeSpec /\ DeviceSpec /\ ListenSpec /\ BackupSpec /\ SetupSpec
  <1>1. MCInit => Init /\ NoticeInit /\ DeviceInit /\ ListenInit /\ BackupInit /\ SetupInit
    BY DEF MCInit
  <1> QED
    BY <1>1, ServerStep, PTL
       DEF MCSpec, Spec, NoticeSpec, DeviceSpec, ListenSpec, BackupSpec, SetupSpec

\* The types of all six parts.
THEOREM ServerTyped == MCSpec => []TypeInvariant
  BY ServerParts, BoardTypesKept, NoticeTypesKept, DeviceTypesKept, ListenTypesKept, BackupTypesKept,
     SetupTypesKept, PTL DEF TypeInvariant
=============================================================================
