---------------------------- MODULE ConsoleProofs ----------------------------
(***************************************************************************)
(* The console, for any collections, names, handlers and limit of polls:   *)
(* no answer that comes late paints the screen of another collection, and  *)
(* no button is left without a handler that will reset it.                 *)
(***************************************************************************)
EXTENDS Console, TLAPS

-----------------------------------------------------------------------------
(***************************************************************************)
(* The invariant                                                           *)
(***************************************************************************)
\* A handler runs for a collection, and the documents it follows are of it.
Sound(call) ==
    /\ call \in Call
    /\ call.kind = "none" => call = Ended
    /\ call.kind # "none" => call.from \in Collections
    /\ call.kind \in {"poll", "delete", "watch"} => call.document \in DocumentsOf(call.from)

CallsAreSound == \A k \in Calls : Sound(calls[k])

\* A load of the table that is not cancelled is of the collection on the screen.
LoadsAreCurrent ==
    \A k \in Calls : calls[k].kind = "list" /\ calls[k].live => Shown /\ StillOpen(k)

ConsoleIInv ==
    /\ ConsoleTypeOK /\ CallsAreSound /\ LoadsAreCurrent
    /\ ScreenIsOfCollection /\ ButtonsHaveCalls

LEMMA CallsTyped ==
    /\ Sound(Ended) /\ Ended.kind = "none"
    /\ \A kind \in {"list", "upload", "query", "citation"}, c \in Collections :
          Sound(Running(kind, c, None))
    /\ \A c \in Collections : \A d \in DocumentsOf(c) : Sound(Running("delete", c, d))
    /\ \A kind, c, d : /\ Running(kind, c, d).kind = kind /\ Running(kind, c, d).from = c
                       /\ Running(kind, c, d).document = d
BY PollLimitAssumption DEF Sound, Call, Ended, Running, Documents, DocumentsOf

LEMMA ConsoleInitially == ConsoleInit => ConsoleIInv
<1> SUFFICES ASSUME ConsoleInit PROVE ConsoleIInv
  OBVIOUS
<1> USE DEF ConsoleInit
<1>1. PICK k \in Calls :
        calls = [j \in Calls |-> IF j = k /\ Shown THEN Running("list", selected, None) ELSE Ended]
  OBVIOUS
<1>2. Shown => selected \in Collections
  BY DEF Shown
<1>3. CallsAreSound /\ LoadsAreCurrent
  BY <1>1, <1>2, CallsTyped DEF CallsAreSound, LoadsAreCurrent, StillOpen
<1>4. ConsoleTypeOK
  BY <1>1, <1>3 DEF ConsoleTypeOK, CallsAreSound, Sound
<1>5. ScreenIsOfCollection /\ ButtonsHaveCalls
  BY NoneAssumption DEF ScreenIsOfCollection, ButtonsHaveCalls, Documents, DocumentsOf
<1> QED BY <1>3, <1>4, <1>5 DEF ConsoleIInv

-----------------------------------------------------------------------------
(***************************************************************************)
(* What a step does to the calls                                           *)
(***************************************************************************)
\* One handler goes on, with the call it becomes, which may be its end.
GoesOn(k, call) == calls' = [calls EXCEPT ![k] = call]

Continues(old, new) ==
    \/ new = Ended
    \/ /\ Sound(new) /\ new.from = old.from /\ new.live = old.live
       /\ \/ new.kind = old.kind /\ new.document = old.document
          \/ old.kind = "delete" /\ new.kind = "watch" /\ new.document = old.document
          \/ old.kind = "upload" /\ new.kind = "poll"

LEMMA OneGoesOn ==
    ASSUME ConsoleIInv, NEW k \in Calls, NEW call, GoesOn(k, call)
    PROVE  /\ calls'[k] = call /\ \A j \in Calls : j # k => calls'[j] = calls[j]
           /\ call \in Call => calls' \in [Calls -> Call]
BY DEF ConsoleIInv, ConsoleTypeOK, GoesOn

\* The calls stay sound while the same collection is on the screen.
LEMMA SoundGoesOn ==
    ASSUME ConsoleIInv, UNCHANGED <<connected, selected>>,
           NEW k \in Calls, NEW call, GoesOn(k, call), Continues(calls[k], call)
    PROVE  calls' \in [Calls -> Call] /\ CallsAreSound' /\ LoadsAreCurrent'
<1>1. Sound(call)
  BY CallsTyped DEF Continues
<1>2. /\ calls'[k] = call /\ \A j \in Calls : j # k => calls'[j] = calls[j]
      /\ calls' \in [Calls -> Call]
  BY <1>1, OneGoesOn DEF Sound
<1>3. CallsAreSound'
  BY <1>1, <1>2 DEF ConsoleIInv, CallsAreSound, Sound
<1>4. LoadsAreCurrent'
  BY <1>2, CallsTyped DEF ConsoleIInv, LoadsAreCurrent, Continues, Shown, StillOpen
<1> QED BY <1>2, <1>3, <1>4

LEMMA EndContinues ==
    ASSUME ConsoleIInv, NEW k \in Calls, End(k)
    PROVE  GoesOn(k, Ended) /\ Continues(calls[k], Ended)
BY DEF End, GoesOn, Continues

LEMMA AwaitContinues ==
    ASSUME ConsoleIInv, NEW k \in Calls, calls[k].kind # "none",
           NEW at \in {"response", "body", "detail", "timer"}, Await(k, at)
    PROVE  \E call : /\ GoesOn(k, call) /\ Continues(calls[k], call)
                     /\ call.kind = calls[k].kind /\ call.from = calls[k].from
                     /\ call.document = calls[k].document
<1> DEFINE call == [calls[k] EXCEPT !.at = at]
<1>1. Sound(calls[k]) /\ calls[k] \in Call
  BY DEF ConsoleIInv, CallsAreSound, Sound
<1>2. /\ call \in Call /\ call.kind = calls[k].kind /\ call.from = calls[k].from
      /\ call.document = calls[k].document /\ call.live = calls[k].live
  BY <1>1 DEF Call
<1>3. GoesOn(k, call)
  BY DEF GoesOn, Await, ConsoleIInv, ConsoleTypeOK
<1> HIDE DEF call
<1>4. Continues(calls[k], call)
  BY <1>1, <1>2 DEF Continues, Sound
<1> QED BY <1>2, <1>3, <1>4

\* A poll waits for its next attempt, or ends after the last one.
LEMMA WaitContinues ==
    ASSUME ConsoleIInv, NEW k \in Calls, calls[k].kind # "none", Wait(k)
    PROVE  \E call : /\ GoesOn(k, call) /\ Continues(calls[k], call)
                     /\ calls[k].attempt # PollLimit =>
                          /\ call.kind = calls[k].kind /\ call.from = calls[k].from
                          /\ call.document = calls[k].document
<1> DEFINE call == [calls[k] EXCEPT !.at = "timer", !.attempt = calls[k].attempt + 1]
<1>1. Sound(calls[k]) /\ calls[k] \in Call
  BY DEF ConsoleIInv, CallsAreSound, Sound
<1>2. CASE calls[k].attempt = PollLimit
  BY <1>2, EndContinues DEF Wait
<1>3. CASE calls[k].attempt # PollLimit
  <2>1. calls[k].attempt + 1 \in 0..PollLimit
    BY <1>1, <1>3, PollLimitAssumption DEF Call
  <2>2. /\ call \in Call /\ call.kind = calls[k].kind /\ call.from = calls[k].from
        /\ call.document = calls[k].document /\ call.live = calls[k].live
    BY <1>1, <2>1 DEF Call
  <2>3. GoesOn(k, call)
    BY <1>3 DEF GoesOn, Wait, ConsoleIInv, ConsoleTypeOK
  <2> HIDE DEF call
  <2>4. Continues(calls[k], call)
    BY <1>1, <2>2 DEF Continues, Sound
  <2> QED BY <1>3, <2>2, <2>3, <2>4
<1> QED BY <1>2, <1>3

\* A handler of the user's starts, or none does, and others may be cancelled, which
\* changes nothing else of them.
Starts(kinds, call) ==
    \E k \in Calls : calls[k] = Ended /\ calls' = [Cancel(kinds) EXCEPT ![k] = call]

Survives(k) ==
    /\ calls'[k].kind = calls[k].kind /\ calls'[k].from = calls[k].from
    /\ calls'[k].document = calls[k].document

LEMMA CancelledIsSound ==
    ASSUME ConsoleIInv, NEW kinds, "none" \notin kinds, NEW k \in Calls
    PROVE  /\ Sound(Cancel(kinds)[k])
           /\ Cancel(kinds)[k].kind = calls[k].kind /\ Cancel(kinds)[k].from = calls[k].from
           /\ Cancel(kinds)[k].document = calls[k].document
           /\ Cancel(kinds)[k].live => calls[k].live /\ calls[k].kind \notin kinds
<1> DEFINE dead == [calls[k] EXCEPT !.live = FALSE]
<1>1. Sound(calls[k]) /\ calls[k] \in Call
  BY DEF ConsoleIInv, CallsAreSound, Sound
<1>2. /\ dead \in Call /\ dead.kind = calls[k].kind /\ dead.from = calls[k].from
      /\ dead.document = calls[k].document /\ ~dead.live
  BY <1>1 DEF Call
<1>3. Cancel(kinds)[k] = IF calls[k].kind \in kinds THEN dead ELSE calls[k]
  BY DEF Cancel
<1> HIDE DEF dead
<1>4. CASE calls[k].kind \in kinds
  BY <1>1, <1>2, <1>3, <1>4 DEF Sound
<1>5. CASE calls[k].kind \notin kinds
  BY <1>1, <1>3, <1>5
<1> QED BY <1>4, <1>5

LEMMA SoundStart ==
    ASSUME ConsoleIInv, NEW kinds, "none" \notin kinds, NEW call, Sound(call),
           Starts(kinds, call) \/ calls' = Cancel(kinds)
    PROVE  /\ calls' \in [Calls -> Call] /\ CallsAreSound'
           /\ \A k \in Calls : calls[k].kind # "none" => Survives(k)
           /\ \A k \in Calls : calls'[k].live =>
                 \/ calls'[k] = call
                 \/ calls[k].live /\ calls[k].kind \notin kinds /\ Survives(k)
           /\ Starts(kinds, call) => \E k \in Calls : calls'[k] = call
<1> DEFINE old == Cancel(kinds)
<1>1. DOMAIN old = Calls /\ old = [k \in Calls |-> old[k]]
  BY DEF Cancel
<1>2. \A k \in Calls : /\ Sound(old[k])
                       /\ old[k].kind = calls[k].kind /\ old[k].from = calls[k].from
                       /\ old[k].document = calls[k].document
                       /\ old[k].live => calls[k].live /\ calls[k].kind \notin kinds
  BY CancelledIsSound
<1>3. CASE calls' = old
  <2>1. ~Starts(kinds, call) \/ \E k \in Calls : calls'[k] = call
    BY <1>1 DEF Starts
  <2> HIDE DEF old
  <2> QED BY <1>1, <1>2, <1>3, <2>1 DEF CallsAreSound, Sound, Survives
<1>4. CASE Starts(kinds, call)
  <2>1. PICK i \in Calls : calls[i] = Ended /\ calls' = [old EXCEPT ![i] = call]
    BY <1>4 DEF Starts
  <2>2. Ended.kind = "none"
    BY CallsTyped
  <2> HIDE DEF old
  <2>3. /\ calls'[i] = call /\ \A k \in Calls : k # i => calls'[k] = old[k]
        /\ calls' = [k \in Calls |-> calls'[k]]
    BY <1>1, <2>1
  <2> QED BY <1>2, <2>1, <2>2, <2>3 DEF CallsAreSound, Sound, Survives
<1> QED BY <1>3, <1>4

LEMMA StartStarts ==
    ASSUME ConsoleIInv
    PROVE  /\ \A kinds, kind, c, d :
                 Start(Cancel(kinds), kind, c, d) => Starts(kinds, Running(kind, c, d))
           /\ Cancel({}) = calls
<1>1. ASSUME NEW kinds, NEW kind, NEW c, NEW d, Start(Cancel(kinds), kind, c, d)
      PROVE  Starts(kinds, Running(kind, c, d))
  <2>1. (CHOOSE k \in Idle : TRUE) \in Idle
    BY <1>1 DEF Start
  <2> QED BY <1>1, <2>1 DEF Start, Starts, Idle
<1>2. Cancel({}) = calls
  BY DEF Cancel, ConsoleIInv, ConsoleTypeOK
<1> QED BY <1>1, <1>2

-----------------------------------------------------------------------------
(***************************************************************************)
(* The steps of the user                                                   *)
(***************************************************************************)
LEMMA OpenKeeps ==
    ASSUME ConsoleIInv, Open, connected' \in BOOLEAN, selected' \in Collections \union {None},
           UNCHANGED lost
    PROVE  ConsoleIInv'
<1>1. CASE ~Shown'
  <2>1. calls' = Cancel({"list", "citation"}) /\ UNCHANGED <<rows, deleting, result, loading>>
    BY <1>1 DEF Open, Shown
  <2>2. \A k \in Calls : calls'[k].kind = "list" => ~calls'[k].live
    BY <2>1, CancelledIsSound
  <2>3. calls' \in [Calls -> Call] /\ CallsAreSound'
    BY <2>1, SoundStart, CallsTyped
  <2>4. ConsoleTypeOK'
    BY <2>1, <2>3 DEF ConsoleIInv, ConsoleTypeOK, Open
  <2> QED BY <1>1, <2>2, <2>3, <2>4
          DEF ConsoleIInv, LoadsAreCurrent, ScreenIsOfCollection, ButtonsHaveCalls
<1>2. CASE Shown'
  <2> DEFINE call == Running("list", selected', None)
  <2>1. /\ rows' = {} /\ deleting' = None /\ result' = None /\ loading' = FALSE
        /\ Starts({"list", "citation"}, call) /\ selected' \in Collections
    BY <1>2, StartStarts DEF Open, Shown
  <2>2. Sound(call) /\ call.from = selected'
    BY <2>1, CallsTyped
  <2> HIDE DEF call
  <2>3. /\ calls' \in [Calls -> Call] /\ CallsAreSound'
        /\ \A k \in Calls : calls'[k].live =>
              \/ calls'[k] = call
              \/ calls[k].kind \notin {"list", "citation"} /\ Survives(k)
    BY <2>1, <2>2, SoundStart
  <2>4. LoadsAreCurrent'
    BY <1>2, <2>2, <2>3 DEF LoadsAreCurrent, StillOpen, Survives
  <2>5. ConsoleTypeOK'
    BY <2>1, <2>3 DEF ConsoleIInv, ConsoleTypeOK, Open
  <2>6. ScreenIsOfCollection' /\ ButtonsHaveCalls'
    BY <2>1, NoneAssumption DEF ScreenIsOfCollection, ButtonsHaveCalls, Documents
  <2> QED BY <2>3, <2>4, <2>5, <2>6 DEF ConsoleIInv
<1> QED BY <1>1, <1>2

\* A handler that is not a load starts in the collection on the screen.
LEMMA StartKeeps ==
    ASSUME ConsoleIInv, Shown, UNCHANGED <<connected, selected, rows>>,
           NEW kinds, "none" \notin kinds, NEW call, Sound(call), call.kind # "list",
           Starts(kinds, call),
           \/ deleting' = deleting /\ lost' = lost
           \/ /\ deleting' \in DocumentsOf(selected) /\ deleting' = call.document
              /\ call.kind = "delete" /\ lost' \subseteq lost,
           result' \in {result, None}, loading' \in BOOLEAN, proof' \in {proof, None},
           loading' => loading \/ (call.kind = "query" /\ call.from = selected)
    PROVE  ConsoleIInv'
<1>1. /\ calls' \in [Calls -> Call] /\ CallsAreSound'
      /\ \A k \in Calls : calls[k].kind # "none" => Survives(k)
      /\ \A k \in Calls : calls'[k].live =>
            \/ calls'[k] = call
            \/ calls[k].live /\ calls[k].kind \notin kinds /\ Survives(k)
      /\ \E k \in Calls : calls'[k] = call
  BY SoundStart
<1>2. Shown' /\ selected \in Collections
  BY DEF Shown, ConsoleIInv, ConsoleTypeOK
<1>3. LoadsAreCurrent'
  BY <1>1, <1>2 DEF ConsoleIInv, LoadsAreCurrent, StillOpen, Survives, Shown
<1>4. ConsoleTypeOK'
  BY <1>1, <1>2 DEF ConsoleIInv, ConsoleTypeOK, Documents, DocumentsOf
<1>5. ScreenIsOfCollection'
  BY <1>2 DEF ConsoleIInv, ScreenIsOfCollection
<1>6. ButtonsHaveCalls'
  <2>1. ASSUME loading' PROVE \E k \in Calls : calls'[k].kind = "query" /\ StillOpen(k)'
    BY <1>1, <2>1 DEF ConsoleIInv, ButtonsHaveCalls, StillOpen, Survives
  <2>2. ASSUME deleting' \in Documents \ lost'
        PROVE  \E k \in Calls : /\ calls'[k].kind \in {"delete", "watch"}
                                /\ calls'[k].document = deleting'
    BY <1>1, <2>2 DEF ConsoleIInv, ButtonsHaveCalls, Survives
  <2> QED BY <2>1, <2>2 DEF ButtonsHaveCalls
<1> QED BY <1>1, <1>3, <1>4, <1>5, <1>6 DEF ConsoleIInv

LEMMA UserKeeps ==
    ASSUME ConsoleIInv, User
    PROVE  ConsoleIInv'
<1>a. ConsoleTypeOK /\ (Shown => selected \in Collections)
  BY DEF ConsoleIInv, ConsoleTypeOK, Shown
<1>1. CASE Navigate \/ Connect \/ KeyRefused
  <2>1. /\ Open /\ connected' \in BOOLEAN /\ selected' \in Collections \union {None}
        /\ UNCHANGED lost
    BY <1>a, <1>1 DEF Navigate, Connect, KeyRefused, ConsoleTypeOK
  <2> QED BY <2>1, OpenKeeps
<1>2. CASE Upload
  <2>1. Starts({}, Running("upload", selected, None)) /\ Shown
    BY <1>2, StartStarts DEF Upload
  <2>2. /\ Sound(Running("upload", selected, None))
        /\ Running("upload", selected, None).kind = "upload"
    BY <1>a, <2>1, CallsTyped
  <2>3. /\ UNCHANGED <<connected, selected, rows, deleting, lost, result, loading, proof>>
        /\ loading \in BOOLEAN
    BY <1>a, <1>2 DEF Upload, screen, ConsoleTypeOK
  <2> QED BY <2>1, <2>2, <2>3, StartKeeps
<1>3. CASE Delete
  <2>1. PICK d \in rows \ {deleting} :
          deleting' = d /\ lost' = lost \ {d} /\ Start(calls, "delete", selected, d)
    BY <1>3 DEF Delete
  <2>2. Shown /\ Starts({}, Running("delete", selected, d))
    BY <1>3, <2>1, StartStarts DEF Delete
  <2>3. d \in DocumentsOf(selected)
    BY <2>1, <2>2 DEF ConsoleIInv, ScreenIsOfCollection
  <2> DEFINE call == Running("delete", selected, d)
  <2>4. Sound(call) /\ call.kind = "delete" /\ call.document = d
    BY <1>a, <2>2, <2>3, CallsTyped
  <2> HIDE DEF call
  <2>5. UNCHANGED <<connected, selected, rows, result, loading, proof>> /\ loading \in BOOLEAN
    BY <1>a, <1>3 DEF Delete, ConsoleTypeOK
  <2> QED BY <2>1, <2>2, <2>3, <2>4, <2>5, StartKeeps DEF call
<1>4. CASE AskQuestion
  <2> DEFINE call == Running("query", selected, None)
  <2>1. Starts({"citation"}, call) /\ Shown
    BY <1>4, StartStarts DEF AskQuestion
  <2>2. Sound(call) /\ call.kind = "query" /\ call.from = selected
    BY <1>a, <2>1, CallsTyped
  <2> HIDE DEF call
  <2> QED BY <1>4, <2>1, <2>2, StartKeeps DEF AskQuestion
<1>5. CASE OpenCitation
  <2> DEFINE call == Running("citation", result, None)
  <2>1. Starts({"citation"}, call) /\ Shown /\ result # None
    BY <1>5, StartStarts DEF OpenCitation
  <2>2. result \in Collections
    BY <1>a, <2>1 DEF ConsoleTypeOK
  <2>3. Sound(call) /\ call.kind = "citation"
    BY <2>2, CallsTyped
  <2> HIDE DEF call
  <2>4. loading' = loading /\ loading \in BOOLEAN
    BY <1>a, <1>5 DEF OpenCitation, ConsoleTypeOK
  <2> QED BY <1>5, <2>1, <2>3, <2>4, StartKeeps DEF OpenCitation
<1> QED BY <1>1, <1>2, <1>3, <1>4, <1>5 DEF User

-----------------------------------------------------------------------------
(***************************************************************************)
(* The steps of the handlers                                               *)
(***************************************************************************)
\* What a handler that goes on may do to the screen: it changes the table and the
\* answer of its own collection only, and ends with its button reset.
Paints(k, call) ==
    /\ rows' \subseteq Documents /\ (Shown => rows' \subseteq DocumentsOf(selected))
    /\ deleting' \in {deleting, None}
    /\ result' \in Collections \union {None} /\ (Shown => result' \in {selected, None})
    /\ proof' \in Collections \union {None}
    /\ lost \subseteq lost' /\ lost' \subseteq Documents
    /\ loading' \in BOOLEAN /\ (loading' => loading)
    /\ loading' /\ calls[k].kind = "query" /\ StillOpen(k) => call.kind = "query"
    /\ Shown /\ calls[k].kind \in {"delete", "watch"} /\ deleting' = calls[k].document
          /\ deleting' \notin lost' => call # Ended

LEMMA PaintKeeps ==
    ASSUME ConsoleIInv, UNCHANGED <<connected, selected>>,
           NEW k \in Calls, NEW call, GoesOn(k, call), Continues(calls[k], call), Paints(k, call)
    PROVE  ConsoleIInv'
<1>1. calls' \in [Calls -> Call] /\ CallsAreSound' /\ LoadsAreCurrent'
  BY SoundGoesOn
<1>2. calls'[k] = call /\ \A j \in Calls : j # k => calls'[j] = calls[j]
  BY OneGoesOn
<1>3. ConsoleTypeOK'
  BY <1>1 DEF ConsoleIInv, ConsoleTypeOK, Paints
<1>4. ScreenIsOfCollection'
  BY DEF ConsoleIInv, ScreenIsOfCollection, Paints, Shown
<1>5. ASSUME Shown, loading'
      PROVE  \E j \in Calls : calls'[j].kind = "query" /\ StillOpen(j)'
  <2>1. PICK j \in Calls : calls[j].kind = "query" /\ StillOpen(j)
    BY <1>5 DEF ConsoleIInv, ButtonsHaveCalls, Paints
  <2>2. CASE j # k
    BY <1>2, <2>1, <2>2 DEF StillOpen
  <2>3. CASE j = k
    <3>1. call.kind = "query"
      BY <1>5, <2>1, <2>3 DEF Paints
    <3>2. call.from = calls[k].from
      BY <3>1, CallsTyped DEF Continues
    <3> QED BY <1>2, <2>1, <2>3, <3>1, <3>2 DEF StillOpen
  <2> QED BY <2>2, <2>3
<1>6. ASSUME Shown, deleting' \in Documents \ lost'
      PROVE  \E j \in Calls : /\ calls'[j].kind \in {"delete", "watch"}
                              /\ calls'[j].document = deleting'
  <2>1. deleting' = deleting /\ deleting \in Documents \ lost
    BY <1>6, NoneAssumption DEF Paints, Documents
  <2>2. PICK j \in Calls : /\ calls[j].kind \in {"delete", "watch"}
                           /\ calls[j].document = deleting
    BY <1>6, <2>1 DEF ConsoleIInv, ButtonsHaveCalls
  <2>3. CASE j # k
    BY <1>2, <2>1, <2>2, <2>3
  <2>4. CASE j = k
    <3>1. call # Ended
      BY <1>6, <2>1, <2>2, <2>4 DEF Paints
    <3>2. call.kind \in {"delete", "watch"} /\ call.document = calls[k].document
      BY <2>2, <2>4, <3>1 DEF Continues
    <3> QED BY <1>2, <2>1, <2>2, <2>4, <3>2
  <2> QED BY <2>3, <2>4
<1>7. ButtonsHaveCalls'
  BY <1>5, <1>6 DEF ButtonsHaveCalls, Shown
<1> QED BY <1>1, <1>3, <1>4, <1>7 DEF ConsoleIInv

\* The facts of a call that runs.
LEMMA CallFacts ==
    ASSUME ConsoleIInv, NEW k \in Calls
    PROVE  /\ ConsoleTypeOK
           /\ calls[k].kind # "none" => calls[k].from \in Collections
           /\ calls[k].kind \in {"poll", "delete", "watch"} =>
                 calls[k].document \in DocumentsOf(calls[k].from)
           /\ calls[k].from \in Collections => DocumentsOf(calls[k].from) \subseteq Documents
           /\ Shown => rows \subseteq DocumentsOf(selected) /\ result \in {selected, None}
           /\ Shown /\ deleting # None => deleting \in DocumentsOf(selected)
BY DEF ConsoleIInv, CallsAreSound, Sound, ScreenIsOfCollection, Documents, DocumentsOf

LEMMA TableKeeps ==
    ASSUME ConsoleIInv, NEW k \in Calls, ListLoaded(k) \/ Uploaded(k) \/ Polled(k)
    PROVE  ConsoleIInv'
<1>a. /\ ConsoleTypeOK /\ calls[k].kind # "none" /\ calls[k].from \in Collections
      /\ DocumentsOf(calls[k].from) \subseteq Documents
      /\ Shown => rows \subseteq DocumentsOf(selected) /\ result \in {selected, None}
  BY CallFacts DEF ListLoaded, Uploaded, Polled, At
<1>1. CASE ListLoaded(k)
  <2>1. GoesOn(k, Ended) /\ Continues(calls[k], Ended)
    BY <1>1, EndContinues DEF ListLoaded
  <2>2. Paints(k, Ended)
    BY <1>a, <1>1 DEF ListLoaded, At, Paints, ConsoleTypeOK, ConsoleIInv, LoadsAreCurrent, StillOpen
  <2> QED BY <1>1, <2>1, <2>2, PaintKeeps DEF ListLoaded
<1>2. CASE Uploaded(k)
  <2>1. CASE StillOpen(k)
    <3>1. PICK d \in DocumentsOf(calls[k].from) :
            /\ rows' = rows \union {d}
            /\ calls' = [calls EXCEPT ![k].kind = "poll", ![k].document = d]
      BY <1>2, <2>1 DEF Uploaded
    <3> DEFINE call == [calls[k] EXCEPT !.kind = "poll", !.document = d]
    <3>2. calls[k] \in Call /\ calls[k].kind = "upload"
      BY <1>a, <1>2 DEF ConsoleTypeOK, Uploaded, At
    <3>3. /\ call \in Call /\ call.kind = "poll" /\ call.from = calls[k].from
          /\ call.document = d /\ call.live = calls[k].live
      BY <1>a, <3>2 DEF Call
    <3>4. GoesOn(k, call)
      BY <1>a, <3>1 DEF GoesOn, ConsoleTypeOK
    <3> HIDE DEF call
    <3>5. Continues(calls[k], call)
      BY <1>a, <3>2, <3>3 DEF Continues, Sound
    <3>6. Paints(k, call)
      BY <1>a, <1>2, <2>1, <3>1, <3>2 DEF Uploaded, Paints, ConsoleTypeOK, StillOpen
    <3> QED BY <1>2, <3>4, <3>5, <3>6, PaintKeeps DEF Uploaded
  <2>2. CASE ~StillOpen(k)
    <3>1. GoesOn(k, Ended) /\ Continues(calls[k], Ended)
      BY <1>2, <2>2, EndContinues DEF Uploaded
    <3>2. Paints(k, Ended)
      BY <1>a, <1>2, <2>2 DEF Uploaded, At, Paints, ConsoleTypeOK
    <3> QED BY <1>2, <3>1, <3>2, PaintKeeps DEF Uploaded
  <2> QED BY <2>1, <2>2
<1>3. CASE Polled(k)
  <2>1. \E call : GoesOn(k, call) /\ Continues(calls[k], call)
    BY <1>a, <1>3, EndContinues, WaitContinues DEF Polled
  <2>2. calls[k].document \in DocumentsOf(calls[k].from)
    BY <1>3, CallFacts DEF Polled, At
  <2>3. \A call : Paints(k, call)
    BY <1>a, <1>3, <2>2 DEF Polled, At, Paints, ConsoleTypeOK, StillOpen
  <2> QED BY <1>3, <2>1, <2>3, PaintKeeps DEF Polled
<1> QED BY <1>1, <1>2, <1>3

\* A handler that reads, waits or gives up leaves the screen as it is.
LEMMA WaitsKeep ==
    ASSUME ConsoleIInv, NEW k \in Calls,
           \/ PollAgain(k) \/ PollAnswered(k) \/ GivesUp(k) \/ Watched(k)
           \/ QueryResponse(k) \/ CitationResponse(k)
    PROVE  ConsoleIInv'
<1>a. /\ ConsoleTypeOK /\ calls[k].kind # "none" /\ calls[k].from \in Collections
      /\ Shown => rows \subseteq DocumentsOf(selected) /\ result \in {selected, None}
      /\ calls[k].kind \in {"delete", "watch"} => calls[k].document \in DocumentsOf(calls[k].from)
      /\ Shown /\ deleting # None => deleting \in DocumentsOf(selected)
  BY CallFacts DEF PollAgain, PollAnswered, GivesUp, Watched, QueryResponse, CitationResponse, At
<1>b. UNCHANGED <<connected, selected, rows, deleting, result, loading, proof, lost>>
  BY DEF PollAgain, PollAnswered, GivesUp, Watched, QueryResponse, CitationResponse, screen
\* The button of a handler that ends so is not the one on the screen.
<1>c. ASSUME NEW call,
             calls[k].kind = "query" /\ StillOpen(k) => call.kind = "query",
             StillOpen(k) /\ calls[k].kind \in {"delete", "watch"} => call # Ended
      PROVE  Paints(k, call)
  <2>1. Shown /\ calls[k].kind \in {"delete", "watch"} /\ deleting = calls[k].document
           => StillOpen(k)
    <3>1. \A d \in Documents : d \in DocumentsOf(calls[k].from) /\ d \in DocumentsOf(selected)
             => calls[k].from = selected
      BY DEF DocumentsOf
    <3>2. calls[k].kind \in {"delete", "watch"} =>
             calls[k].document \in Documents /\ calls[k].document # None
      BY <1>a, NoneAssumption DEF Documents, DocumentsOf
    <3> QED BY <1>a, <3>1, <3>2 DEF StillOpen
  <2> QED BY <1>a, <1>b, <1>c, <2>1 DEF Paints, ConsoleTypeOK
<1>d. ASSUME End(k), calls[k].kind \in {"query", "delete", "watch"} => ~StillOpen(k)
      PROVE  ConsoleIInv'
  BY <1>b, <1>c, <1>d, EndContinues, PaintKeeps
<1>e. ASSUME NEW at \in {"response", "body", "detail", "timer"}, Await(k, at)
      PROVE  ConsoleIInv'
  <2>1. PICK call : /\ GoesOn(k, call) /\ Continues(calls[k], call)
                    /\ call.kind = calls[k].kind
    BY <1>a, <1>e, AwaitContinues
  <2>2. call # Ended
    BY <1>a, <2>1, CallsTyped
  <2> QED BY <1>b, <1>c, <2>1, <2>2, PaintKeeps
<1>1. CASE PollAgain(k)
  BY <1>1, <1>d, <1>e DEF PollAgain
<1>2. CASE PollAnswered(k)
  <2>1. calls[k].kind = "poll"
    BY <1>2 DEF PollAnswered, At
  <2>2. ASSUME Wait(k) PROVE ConsoleIInv'
    <3>1. \E call : GoesOn(k, call) /\ Continues(calls[k], call)
      BY <1>a, <2>2, WaitContinues
    <3> QED BY <1>b, <1>c, <2>1, <3>1, PaintKeeps
  <2> QED BY <1>2, <1>d, <1>e, <2>1, <2>2 DEF PollAnswered
<1>3. CASE GivesUp(k)
  BY <1>3, <1>d DEF GivesUp, At
<1>4. CASE Watched(k)
  BY <1>4, <1>d DEF Watched
<1>5. CASE QueryResponse(k)
  BY <1>5, <1>d, <1>e DEF QueryResponse
<1>6. CASE CitationResponse(k)
  BY <1>6, <1>d, <1>e DEF CitationResponse, At
<1> QED BY <1>1, <1>2, <1>3, <1>4, <1>5, <1>6

LEMMA DeleteKeeps ==
    ASSUME ConsoleIInv, NEW k \in Calls,
           \/ DeleteAccepted(k) \/ DeleteRefused(k) \/ DeleteRejected(k)
           \/ DocumentGone(k) \/ NotYetGone(k) \/ WatchRejected(k)
    PROVE  ConsoleIInv'
<1>a. /\ ConsoleTypeOK /\ calls[k].kind \in {"delete", "watch"} /\ calls[k].from \in Collections
      /\ calls[k].document \in DocumentsOf(calls[k].from)
      /\ calls[k].document \in Documents /\ calls[k].document # None
      /\ Shown => rows \subseteq DocumentsOf(selected) /\ result \in {selected, None}
      /\ Shown /\ deleting # None => deleting \in DocumentsOf(selected)
  <2>1. calls[k].kind \in {"delete", "watch"}
    BY DEF DeleteAccepted, DeleteRefused, DeleteRejected, DocumentGone, NotYetGone, WatchRejected, At
  <2>2. calls[k].document \in Documents => calls[k].document # None
    BY NoneAssumption DEF Documents
  <2> QED BY <2>1, <2>2, CallFacts
<1>1. CASE DeleteAccepted(k)
  <2>b. UNCHANGED <<connected, selected, rows, deleting, result, loading, proof, lost>>
    BY <1>1 DEF DeleteAccepted, screen
  <2>1. CASE StillOpen(k)
    <3> DEFINE call == [calls[k] EXCEPT !.kind = "watch"]
    <3>1. calls[k] \in Call /\ calls[k].kind = "delete"
      BY <1>a, <1>1 DEF ConsoleTypeOK, DeleteAccepted, At
    <3>2. /\ call \in Call /\ call.kind = "watch" /\ call.from = calls[k].from
          /\ call.document = calls[k].document /\ call.live = calls[k].live
      BY <3>1 DEF Call
    <3>3. GoesOn(k, call)
      BY <1>a, <1>1, <2>1 DEF GoesOn, DeleteAccepted, ConsoleTypeOK
    <3> HIDE DEF call
    <3>4. Continues(calls[k], call) /\ call # Ended
      BY <1>a, <3>1, <3>2, CallsTyped DEF Continues, Sound
    <3>5. Paints(k, call)
      BY <1>a, <2>b, <3>1, <3>4 DEF Paints, ConsoleTypeOK
    <3> QED BY <2>b, <3>3, <3>4, <3>5, PaintKeeps
  <2>2. CASE ~StillOpen(k)
    <3>1. Shown => deleting # calls[k].document
      BY <1>a, <2>2 DEF DocumentsOf, StillOpen
    <3>2. Paints(k, Ended)
      BY <1>a, <2>b, <3>1 DEF Paints, ConsoleTypeOK
    <3>3. End(k)
      BY <1>1, <2>2 DEF DeleteAccepted
    <3> QED BY <2>b, <3>2, <3>3, EndContinues, PaintKeeps
  <2> QED BY <2>1, <2>2
<1>2. CASE DeleteRefused(k) \/ WatchRejected(k)
  <2>1. /\ UNCHANGED <<connected, selected, rows, result, loading, proof, lost>>
        /\ deleting' = None /\ End(k)
    BY <1>2 DEF DeleteRefused, WatchRejected
  <2>2. Paints(k, Ended)
    BY <1>a, <2>1 DEF Paints, ConsoleTypeOK
  <2> QED BY <2>1, <2>2, EndContinues, PaintKeeps
<1>3. CASE DeleteRejected(k)
  <2>1. /\ UNCHANGED <<connected, selected, rows, deleting, result, loading, proof>>
        /\ lost' = lost \union {calls[k].document} /\ End(k)
    BY <1>3 DEF DeleteRejected, screen
  <2>2. Paints(k, Ended)
    BY <1>a, <2>1 DEF Paints, ConsoleTypeOK
  <2> QED BY <2>1, <2>2, EndContinues, PaintKeeps
<1>4. CASE DocumentGone(k)
  <2>1. /\ UNCHANGED <<connected, selected, result, loading, proof, lost>>
        /\ rows' = rows \ {calls[k].document} /\ deleting' = None /\ End(k)
    BY <1>4 DEF DocumentGone
  <2>2. Paints(k, Ended)
    BY <1>a, <2>1 DEF Paints, ConsoleTypeOK
  <2> QED BY <2>1, <2>2, EndContinues, PaintKeeps
<1>5. CASE NotYetGone(k)
  <2>1. /\ UNCHANGED <<connected, selected, rows, result, loading, proof, lost>>
        /\ deleting' = (IF calls[k].attempt = PollLimit THEN None ELSE deleting) /\ Wait(k)
    BY <1>5 DEF NotYetGone
  <2>2. PICK call : /\ GoesOn(k, call) /\ Continues(calls[k], call)
                    /\ calls[k].attempt # PollLimit => call.kind = calls[k].kind
    BY <1>a, <2>1, WaitContinues
  <2>3. calls[k].attempt # PollLimit => call # Ended
    BY <1>a, <2>2, CallsTyped
  <2>4. Paints(k, call)
    BY <1>a, <2>1, <2>3 DEF Paints, ConsoleTypeOK
  <2> QED BY <2>1, <2>2, <2>4, PaintKeeps
<1> QED BY <1>1, <1>2, <1>3, <1>4, <1>5

LEMMA DisconnectKeeps ==
    ASSUME ConsoleIInv, NEW k \in Calls, DeleteUnauthorized(k) \/ QueryUnauthorized(k)
    PROVE  ConsoleIInv'
<1> DEFINE old == Cancel({"list", "citation"})
<1>1. /\ Disconnect(k) /\ lost' = lost /\ loading' \in BOOLEAN
  BY DEF DeleteUnauthorized, QueryUnauthorized, Settle, ConsoleIInv, ConsoleTypeOK
<1>2. /\ ~Shown' /\ calls' = [old EXCEPT ![k] = Ended] /\ proof' = None
      /\ UNCHANGED <<selected, rows, deleting, result>> /\ connected' = FALSE
  BY <1>1 DEF Disconnect, Shown
<1>3. /\ old = [j \in Calls |-> old[j]]
      /\ \A j \in Calls : Sound(old[j]) /\ (old[j].live => old[j].kind # "list")
  BY CancelledIsSound DEF Cancel
<1>4. Sound(Ended) /\ Ended.kind = "none"
  BY CallsTyped
<1> HIDE DEF old
<1>5. \A j \in Calls : Sound(calls'[j]) /\ (calls'[j].live => calls'[j].kind # "list")
  BY <1>2, <1>3, <1>4
<1>6. calls' \in [Calls -> Call] /\ CallsAreSound' /\ LoadsAreCurrent'
  BY <1>2, <1>3, <1>5 DEF CallsAreSound, LoadsAreCurrent, Sound
<1>7. ConsoleTypeOK'
  BY <1>1, <1>2, <1>6 DEF ConsoleIInv, ConsoleTypeOK
<1> QED BY <1>2, <1>6, <1>7 DEF ConsoleIInv, ScreenIsOfCollection, ButtonsHaveCalls

LEMMA AnswerKeeps ==
    ASSUME ConsoleIInv, NEW k \in Calls, QueryAnswered(k) \/ QueryFailed(k) \/ PageShown(k)
    PROVE  ConsoleIInv'
<1>a. /\ ConsoleTypeOK /\ calls[k].kind \in {"query", "citation"} /\ calls[k].from \in Collections
      /\ Shown => rows \subseteq DocumentsOf(selected) /\ result \in {selected, None}
  BY CallFacts DEF QueryAnswered, QueryFailed, PageShown, At
<1>1. /\ UNCHANGED <<connected, selected, rows, deleting, lost>>
      /\ result' \in {result, calls[k].from} /\ (result' # result => StillOpen(k))
      /\ proof' \in {proof, calls[k].from}
      /\ loading' \in BOOLEAN /\ (loading' => loading)
      /\ loading' /\ calls[k].kind = "query" => ~StillOpen(k)
      /\ End(k)
  <2>1. ASSUME Settle(k)
        PROVE  loading' \in BOOLEAN /\ (loading' => loading) /\ (loading' => ~StillOpen(k))
    BY <2>1 DEF Settle
  <2>2. CASE QueryAnswered(k) \/ QueryFailed(k)
    BY <2>1, <2>2 DEF QueryAnswered, QueryFailed
  <2>3. CASE PageShown(k)
    BY <1>a, <2>3 DEF PageShown, At, ConsoleTypeOK
  <2> QED BY <2>2, <2>3
<1>2. Paints(k, Ended)
  BY <1>a, <1>1 DEF Paints, ConsoleTypeOK, StillOpen
<1> QED BY <1>1, <1>2, EndContinues, PaintKeeps

LEMMA ConsoleInductive == ConsoleIInv /\ [ConsoleNext]_vars => ConsoleIInv'
<1>1. ASSUME ConsoleIInv, UNCHANGED vars PROVE ConsoleIInv'
  BY <1>1 DEF vars, screen, ConsoleIInv, ConsoleTypeOK, CallsAreSound, LoadsAreCurrent,
              ScreenIsOfCollection, ButtonsHaveCalls, Shown, StillOpen
<1>2. ASSUME ConsoleIInv, NEW k \in Calls, Continue(k) PROVE ConsoleIInv'
  BY <1>2, TableKeeps, WaitsKeep, DeleteKeeps, DisconnectKeeps, AnswerKeeps DEF Continue
<1> QED BY <1>1, <1>2, UserKeeps DEF ConsoleNext

LEMMA ConsoleAlways == ConsoleSpec => []ConsoleIInv
BY ConsoleInitially, ConsoleInductive, PTL DEF ConsoleSpec

-----------------------------------------------------------------------------
(***************************************************************************)
(* The theorems                                                            *)
(***************************************************************************)
\* The handlers and what they hold while they wait have their types.
THEOREM ConsoleIsTyped == ConsoleSpec => []ConsoleTypeOK
<1>1. ConsoleIInv => ConsoleTypeOK
  BY DEF ConsoleIInv
<1> QED BY <1>1, ConsoleAlways, PTL

\* However many handlers of however many collections are answered late, the table,
\* the pending delete and the answer on the screen are those of the open collection.
THEOREM ScreensAreKeptApart == ConsoleSpec => []ScreenIsOfCollection
<1>1. ConsoleIInv => ScreenIsOfCollection
  BY DEF ConsoleIInv
<1> QED BY <1>1, ConsoleAlways, PTL

\* No way out of a handler leaves its button as it is, other than the rejection of
\* a DELETE: the buttons that say "Asking" and "Deleting" have a handler that runs.
THEOREM ButtonsAreFollowed == ConsoleSpec => []ButtonsHaveCalls
<1>1. ConsoleIInv => ButtonsHaveCalls
  BY DEF ConsoleIInv
<1> QED BY <1>1, ConsoleAlways, PTL
=============================================================================
