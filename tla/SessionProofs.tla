---------------------------- MODULE SessionProofs ----------------------------
(***************************************************************************)
(* Proofs about a conversation, for any lines, routes and modes, any        *)
(* interleaving of the front doors with the drives, and restarts anywhere.  *)
(*                                                                         *)
(* The argument: the drive whose cancel func is installed is the one that   *)
(* lives, and the phase and the two bridges say where it stands (Owner).    *)
(* So a line on its way to a bridge was typed at the question of that drive *)
(* or was overtaken by it (Typed), and one that the bridge accepts stays in *)
(* the channel until the question reads it, or is late or forsaken          *)
(* (Answers).  The inbox holds the queued lines, each once (Inbox).  Unless *)
(* excused, one snapshot at most is on its way to the store, and between    *)
(* two drives it is the state of the conversation, or the store is (Saves). *)
(***************************************************************************)
EXTENDS Session, FiniteSetTheorems, TLAPS

\* Where the drive that owns the session stands.
Standing == IF driveCancel = None THEN "nowhere" ELSE at[driveCancel]

\* The owner is the one drive that lives, and phase and bridges say where it stands.
Owner ==
  /\ \A d \in Lines : at[d] \in Live <=> driveCancel = d
  /\ phase = IF driveCancel = None THEN "idle" ELSE PhaseOf(Standing)
  /\ gatePending <=> Standing \in {"gate", "gate_close"}
  /\ askPending <=> Standing \in {"asking", "ask_end"}

\* The inbox holds the queued lines, each once.
Inbox ==
  /\ \A i \in DOMAIN box : at[box[i]] = "queued"
  /\ \A i, j \in DOMAIN box : i # j => box[i] # box[j]
  /\ \A l \in Lines : at[l] = "queued" => \E i \in DOMAIN box : box[i] = l

\* Lines that a bridge accepted and no question may ever read.
Unheard == late \union forsaken

\* Where a drive is parked on a question of each kind, or has just been.
AtGate == {"gate", "gate_close"}
AtAsk  == {"ask", "asking", "ask_end", "ask_leave"}

\* A line on its way to a bridge was typed at the question that stands there, or that
\* question overtook it.
Typed ==
  /\ Standing \in AtGate => \A l \in Lines :
       at[l] = "deliver" /\ saw[l] = "awaiting_gate" => for[l] = Gate \/ l \in behind
  /\ Standing \in AtAsk => \A l \in Lines :
       at[l] = "deliver" /\ saw[l] = "awaiting_input" => for[l] = Asked \/ l \in behind

\* A line in a channel is an answer, typed at the question that stands if one does (or
\* overtaken by it), and unheard if none does; an answer is in a channel, or unheard.
Answers ==
  /\ gateReply # None => at[gateReply] = "answer"
  /\ askReply # None => at[askReply] = "answer"
  /\ gateReply # None => gateReply # askReply
  /\ gateReply # None =>
       IF Standing = "gate" THEN for[gateReply] = Gate \/ gateReply \in behind
                            ELSE gateReply \in Unheard
  /\ askReply # None =>
       IF Standing = "asking" THEN for[askReply] = Asked \/ askReply \in behind
                              ELSE askReply \in Unheard
  /\ \A l \in Lines : at[l] = "answer" => l \in Unheard \/ l = gateReply \/ l = askReply

\* Unless excused, one snapshot at most is on its way; and between two drives it, or else
\* the store, is the state.
Saves ==
  /\ \A l \in Lines : saving[l] # None => at[l] = "saving"
  /\ ~excused =>
       /\ \A s, t \in Lines \union {Door} : saving[s] # None /\ saving[t] # None => s = t
       /\ phase \in {"idle", "routing"} =>
            /\ \A s \in Lines \union {Door} : saving[s] # None => saving[s] = state
            /\ (\A s \in Lines \union {Door} : saving[s] = None) => stored = state

\* The strengthening.
SessionInv == TypeOK /\ Owner /\ Inbox /\ Typed /\ Answers /\ Saves

-----------------------------------------------------------------------------
(* What keeps each part.                                                    *)

\* The drive that lives is the owner.
LEMMA OwnerIs ==
  ASSUME Owner, NEW d \in Lines, at[d] \in Live
  PROVE  /\ driveCancel = d /\ Standing = at[d] /\ phase = PhaseOf(at[d])
         /\ \A x \in Lines : x # d => at[x] \notin Live
         /\ gatePending <=> at[d] \in {"gate", "gate_close"}
         /\ askPending <=> at[d] \in {"asking", "ask_end"}
BY SessionAssumption DEF Owner, Standing

\* The owner takes a step, and whatever else moves does not come to live.
LEMMA OwnerSteps ==
  ASSUME NEW d \in Lines, driveCancel' = d, at'[d] \in Live,
         \A x \in Lines : x # d => at'[x] \notin Live,
         phase' = PhaseOf(at'[d]),
         gatePending' <=> at'[d] \in {"gate", "gate_close"},
         askPending' <=> at'[d] \in {"asking", "ask_end"}
  PROVE  Owner' /\ Standing' = at'[d]
<1>1. Standing' = at'[d] /\ driveCancel' # None
  BY SessionAssumption DEF Standing
<1> QED
  BY <1>1 DEF Owner

\* Nobody lives.
LEMMA NobodyOwns ==
  ASSUME \A x \in Lines : at'[x] \notin Live, driveCancel' = None, phase' = "idle",
         gatePending' = FALSE, askPending' = FALSE
  PROVE  Owner' /\ Standing' = "nowhere"
<1>1. Standing' = "nowhere"
  BY DEF Standing
<1> QED
  BY <1>1, SessionAssumption DEF Owner

\* Lines move, the owner does not.
LEMMA OwnerStays ==
  ASSUME TypeOK, Owner,
         \A x \in Lines : at'[x] = at[x] \/ (at[x] \notin Live /\ at'[x] \notin Live),
         UNCHANGED <<driveCancel, phase, gatePending, askPending>>
  PROVE  Owner' /\ Standing' = Standing
<1>1. CASE driveCancel = None
  <2>1. Standing = "nowhere" /\ Standing' = "nowhere"
    BY <1>1 DEF Standing
  <2>2. \A x \in Lines : at'[x] \notin Live
    BY <1>1, SessionAssumption DEF Owner
  <2> QED
    BY <1>1, <2>1, <2>2, SessionAssumption DEF Owner
<1>2. CASE driveCancel # None
  <2>1. driveCancel \in Lines /\ at[driveCancel] \in Live
    BY <1>2 DEF TypeOK, Owner
  <2>2. at'[driveCancel] = at[driveCancel] /\ \A x \in Lines : at'[x] \in Live <=> at[x] \in Live
    BY <2>1
  <2>3. Standing' = Standing /\ Standing = at[driveCancel]
    BY <1>2, <2>2 DEF Standing
  <2> QED
    BY <2>2, <2>3 DEF Owner
<1> QED
  BY <1>1, <1>2

LEMMA InboxStays ==
  ASSUME TypeOK, Inbox, box' = box,
         \A x \in Lines : at'[x] = "queued" <=> at[x] = "queued"
  PROVE  Inbox'
<1>1. \A i \in DOMAIN box : box[i] \in Lines
  BY DEF TypeOK
<1> QED
  BY <1>1 DEF Inbox

LEMMA AnswersStay ==
  ASSUME TypeOK, Answers, UNCHANGED <<gateReply, askReply, late, forsaken>>,
         \A x \in Lines : at'[x] = "answer" <=> at[x] = "answer",
         \A x \in Lines : at[x] = "answer" => for'[x] = for[x] /\ (x \in behind => x \in behind'),
         Standing' = "gate" <=> Standing = "gate",
         Standing' = "asking" <=> Standing = "asking",
         Standing \in {"gate", "asking"} => UNCHANGED <<driveCancel, gates, asks>>
  PROVE  Answers'
<1>1. gateReply \in Lines \union {None} /\ askReply \in Lines \union {None}
  BY DEF TypeOK
<1>2. gateReply # None => at'[gateReply] = "answer"
  BY <1>1 DEF Answers
<1>3. askReply # None => at'[askReply] = "answer"
  BY <1>1 DEF Answers
<1>4. Standing = "gate" => Gate' = Gate
  BY DEF Gate
<1>5. Standing = "asking" => Asked' = Asked
  BY DEF Asked
<1>6. gateReply # None =>
        IF Standing = "gate" THEN for'[gateReply] = Gate \/ gateReply \in behind'
                             ELSE gateReply \in Unheard
  BY <1>1 DEF Answers
<1>7. askReply # None =>
        IF Standing = "asking" THEN for'[askReply] = Asked \/ askReply \in behind'
                               ELSE askReply \in Unheard
  BY <1>1 DEF Answers
<1>8. Unheard' = Unheard
  BY DEF Unheard
<1> QED
  BY <1>2, <1>3, <1>4, <1>5, <1>6, <1>7, <1>8 DEF Answers

\* Nobody new is on the way, and no question opens.
LEMMA TypedStays ==
  ASSUME Typed,
         \A x \in Lines : at'[x] = "deliver" =>
            /\ at[x] = "deliver" /\ saw'[x] = saw[x] /\ for'[x] = for[x]
            /\ x \in behind => x \in behind',
         Standing' \in AtGate => Standing \in AtGate,
         Standing' \in AtAsk => Standing \in AtAsk,
         Standing' \in AtGate \union AtAsk => UNCHANGED <<driveCancel, gates, asks>>
  PROVE  Typed'
<1>1. Standing' \in AtGate \union AtAsk => Gate' = Gate /\ Asked' = Asked
  BY DEF Gate, Asked
<1> QED
  BY <1>1 DEF Typed

LEMMA SavesStay ==
  ASSUME Saves, UNCHANGED <<saving, stored, state, excused>>,
         \A l \in Lines : at[l] = "saving" => at'[l] = "saving",
         phase' \in {"idle", "routing"} => phase \in {"idle", "routing"}
  PROVE  Saves'
BY DEF Saves

LEMMA InitSession == Init => SessionInv
<1> SUFFICES ASSUME Init PROVE SessionInv
  OBVIOUS
<1>1. Fresh \in States
  BY SessionAssumption DEF Fresh, States, Routes
<1>2. /\ \A l \in Lines : at[l] = "new" /\ saving[l] = None
      /\ saving[Door] = None /\ Standing = "nowhere"
  BY DEF Init, Standing
<1>3. TypeOK
  <2>1. /\ phase \in Phases /\ driveCancel \in Lines \union {None}
        /\ state \in States /\ stored \in States
    BY <1>1 DEF Init, Phases
  <2>2. /\ at \in [Lines -> Places] /\ saw \in [Lines -> Phases] /\ aborted \subseteq Lines
        /\ box \in Seq(Lines)
    BY DEF Init, Places, Phases
  <2>3. /\ gatePending \in BOOLEAN /\ gateReply \in Lines \union {None}
        /\ askPending \in BOOLEAN /\ askReply \in Lines \union {None} /\ retried \in BOOLEAN
        /\ excused \in BOOLEAN
    BY DEF Init
  <2>4. 0 \in 0 .. MaxQuestions /\ 0 \in 0 .. MaxCalls /\ 0 \in 0 .. MaxCrashes
    BY SessionAssumption
  <2>5. /\ gates \in [Lines -> 0 .. MaxQuestions] /\ asks \in [Lines -> 0 .. MaxQuestions]
        /\ calls \in 0 .. MaxCalls /\ crashes \in 0 .. MaxCrashes
    BY <2>4 DEF Init
  <2>6. /\ canceller \in [drive : Lines \union {None}, doing : {"no", "fire", "wait"}]
        /\ saving \in [Lines \union {Door} -> States \union {None}]
        /\ for \in [Lines -> Questions]
        /\ behind \subseteq Lines /\ late \subseteq Lines /\ forsaken \subseteq Lines
    BY DEF Init, Idle, Questions
  <2> QED
    BY <2>1, <2>2, <2>3, <2>5, <2>6 DEF TypeOK
<1>4. Owner
  BY <1>2, SessionAssumption DEF Init, Owner, Live, Parked
<1>5. Inbox
  BY <1>2 DEF Init, Inbox
<1>6. Answers
  BY <1>2 DEF Init, Answers
<1>7. Saves
  BY <1>2 DEF Init, Saves
<1>8. Typed
  BY <1>2 DEF Typed, AtGate, AtAsk
<1> QED
  BY <1>3, <1>4, <1>5, <1>6, <1>7, <1>8 DEF SessionInv

-----------------------------------------------------------------------------
(* Turn.                                                                    *)

LEMMA ClaimKeeps ==
  ASSUME SessionInv, NEW l \in Lines, Claim(l)
  PROVE  SessionInv'
<1>1. /\ at[l] = "new" /\ phase = "idle" /\ phase' = "routing" /\ driveCancel' = l
      /\ at' = [at EXCEPT ![l] = "routing"]
      /\ UNCHANGED <<state, saw, aborted, box, gatePending, gateReply, askPending, askReply,
                     gates, asks, retried, canceller, calls, saving, stored, excused, crashes,
                     for, behind, late, forsaken>>
  BY DEF Claim, Goto, bridges, store, history
<1>2. TypeOK /\ Owner /\ Inbox /\ Typed /\ Answers /\ Saves
  BY DEF SessionInv
<1>3. at \in [Lines -> Places]
  BY <1>2 DEF TypeOK
<1>4. at'[l] = "routing" /\ \A x \in Lines : x # l => at'[x] = at[x]
  BY <1>1, <1>3
<1>5. at' \in [Lines -> Places]
  BY <1>1, <1>3 DEF Places, Live
<1>6. TypeOK'
  BY <1>1, <1>2, <1>5 DEF TypeOK, Phases
<1>7. \A x \in Lines : at[x] \notin Live
  <2>1. \A x \in Lines : at[x] \in Live => PhaseOf(at[x]) # "idle"
    BY DEF PhaseOf
  <2> QED
    BY <1>1, <1>2, <2>1, OwnerIs
<1>8. Standing = "nowhere" /\ ~gatePending /\ ~askPending
  <2>1. driveCancel = None
    BY <1>2, <1>7 DEF TypeOK, Owner
  <2> QED
    BY <1>2, <2>1 DEF Owner, Standing
<1>9. Owner' /\ Standing' = "routing"
  BY <1>1, <1>4, <1>7, <1>8, OwnerSteps DEF PhaseOf, Live
<1>10. Inbox'
  BY <1>1, <1>2, <1>4, InboxStays
<1>11. Answers'
  BY <1>1, <1>2, <1>4, <1>8, <1>9, AnswersStay
<1>12. Saves'
  BY <1>1, <1>2, <1>4, SavesStay
<1>20. Typed'
  BY <1>1, <1>2, <1>4, <1>9, TypedStays DEF AtGate, AtAsk
<1> QED
  BY <1>20, <1>6, <1>9, <1>10, <1>11, <1>12 DEF SessionInv

\* The phase stands for a question of the drive that owns the session.
LEMMA QuestionStands ==
  ASSUME TypeOK, Owner
  PROVE  /\ Question \in Questions
         /\ phase = "awaiting_gate" <=> Standing \in AtGate
         /\ phase = "awaiting_input" => Standing \notin AtGate /\ Question = Asked
         /\ Standing \in AtAsk => phase = "awaiting_input"
         /\ phase = "awaiting_gate" => Question = Gate
<1>1. CASE driveCancel = None
  <2>1. phase = "idle" /\ Standing = "nowhere"
    BY <1>1 DEF Owner, Standing
  <2> QED
    BY <2>1 DEF Question, Questions, AtGate, AtAsk
<1>2. CASE driveCancel # None
  <2>1. driveCancel \in Lines /\ Standing = at[driveCancel] /\ Standing \in Live
    BY <1>2 DEF TypeOK, Owner, Standing
  <2>2. phase = PhaseOf(Standing)
    BY <1>2 DEF Owner
  <2>3. gates[driveCancel] \in 0 .. MaxQuestions /\ asks[driveCancel] \in 0 .. MaxQuestions
    BY <2>1 DEF TypeOK
  <2>4. Gate \in Questions /\ Asked \in Questions /\ <<>> \in Questions
    BY <2>1, <2>3 DEF Gate, Asked, Questions
  <2>5. Question \in Questions
    BY <2>4 DEF Question
  <2> QED
    BY <2>1, <2>2, <2>5 DEF PhaseOf, Question, AtGate, AtAsk, Live, Parked
<1> QED
  BY <1>1, <1>2

LEMMA FollowUpKeeps ==
  ASSUME SessionInv, NEW l \in Lines, FollowUp(l)
  PROVE  SessionInv'
<1>1. /\ at[l] = "new" /\ saw' = [saw EXCEPT ![l] = phase]
      /\ for' = [for EXCEPT ![l] = Question]
      /\ at' = [at EXCEPT ![l] = "deliver"]
      /\ UNCHANGED <<phase, driveCancel, state, aborted, box, gatePending, gateReply, askPending,
                     askReply, gates, asks, retried, canceller, calls, saving, stored, excused,
                     crashes, behind, late, forsaken>>
  BY DEF FollowUp, Goto, session, bridges, store
<1>2. TypeOK /\ Owner /\ Inbox /\ Typed /\ Answers /\ Saves
  BY DEF SessionInv
<1>3. at \in [Lines -> Places] /\ for \in [Lines -> Questions] /\ saw \in [Lines -> Phases]
  BY <1>2 DEF TypeOK
<1>4. at'[l] = "deliver" /\ \A x \in Lines : x # l => at'[x] = at[x]
  BY <1>1, <1>3
<1>5. at' \in [Lines -> Places]
  BY <1>1, <1>3 DEF Places
<1>12. /\ for' \in [Lines -> Questions] /\ for'[l] = Question /\ saw'[l] = phase
       /\ \A x \in Lines : x # l => for'[x] = for[x] /\ saw'[x] = saw[x]
  BY <1>1, <1>2, <1>3, QuestionStands
<1>6. TypeOK'
  BY <1>1, <1>2, <1>5, <1>12 DEF TypeOK
<1>7. "new" \notin Live /\ "deliver" \notin Live
  BY DEF Live, Parked
<1>8. Owner' /\ Standing' = Standing
  BY <1>1, <1>2, <1>4, <1>7, OwnerStays
<1>9. Inbox'
  BY <1>1, <1>2, <1>4, InboxStays
<1>10. Answers'
  BY <1>1, <1>2, <1>4, <1>8, <1>12, AnswersStay
<1>11. Saves'
  BY <1>1, <1>2, <1>4, SavesStay
<1>13. Gate' = Gate /\ Asked' = Asked
  BY <1>1 DEF Gate, Asked
<1>14. Typed'
  <2>1. /\ Standing \in AtGate /\ saw'[l] = "awaiting_gate" => for'[l] = Gate
        /\ Standing \in AtAsk /\ saw'[l] = "awaiting_input" => for'[l] = Asked
    BY <1>2, <1>12, QuestionStands
  <2> QED
    BY <1>1, <1>2, <1>4, <1>8, <1>12, <1>13, <2>1 DEF Typed
<1> QED
  BY <1>6, <1>8, <1>9, <1>10, <1>11, <1>14 DEF SessionInv

\* The drive that owns the session stands at its gate, or has just decided it.
LEMMA GateIsOpen ==
  ASSUME TypeOK, Owner, gatePending
  PROVE  /\ driveCancel \in Lines /\ Standing = at[driveCancel]
         /\ Standing \in {"gate", "gate_close"}
<1>1. driveCancel # None /\ Standing \in {"gate", "gate_close"}
  BY DEF Owner, Standing
<1>2. driveCancel \in Lines /\ Standing = at[driveCancel]
  BY <1>1 DEF Standing, TypeOK
<1> QED
  BY <1>1, <1>2

LEMMA AskIsOpen ==
  ASSUME TypeOK, Owner, askPending
  PROVE  /\ driveCancel \in Lines /\ Standing = at[driveCancel]
         /\ Standing \in {"asking", "ask_end"}
<1>1. driveCancel # None /\ Standing \in {"asking", "ask_end"}
  BY DEF Owner, Standing
<1>2. driveCancel \in Lines /\ Standing = at[driveCancel]
  BY <1>1 DEF Standing, TypeOK
<1> QED
  BY <1>1, <1>2

LEMMA DeliverKeeps ==
  ASSUME SessionInv, NEW l \in Lines, Deliver(l)
  PROVE  SessionInv'
<1>1. /\ at[l] = "deliver" /\ saw' = [saw EXCEPT ![l] = "idle"]
      /\ UNCHANGED <<phase, driveCancel, state, aborted, box, gatePending, askPending, gates,
                     asks, retried, canceller, calls, saving, stored, excused, crashes,
                     forsaken>>
  BY DEF Deliver, session, store
<1>2. TypeOK /\ Owner /\ Inbox /\ Typed /\ Answers /\ Saves
  BY DEF SessionInv
<1>3. /\ at \in [Lines -> Places] /\ for \in [Lines -> Questions] /\ l # None
      /\ saw \in [Lines -> Phases]
      /\ gateReply \in Lines \union {None} /\ askReply \in Lines \union {None}
  BY <1>2, SessionAssumption DEF TypeOK
<1>4. PICK y \in {"answer", "push"} : at' = [at EXCEPT ![l] = y]
  BY DEF Deliver, Goto
<1>5. /\ at'[l] = y /\ \A x \in Lines : x # l => at'[x] = at[x]
      /\ \A x \in Lines : x # l => saw'[x] = saw[x]
  BY <1>1, <1>3, <1>4
<1>6. at' \in [Lines -> Places] /\ "deliver" \notin Live /\ y \notin Live
  BY <1>3, <1>4 DEF Places, Live, Parked
<1>7. Owner' /\ Standing' = Standing
  BY <1>1, <1>2, <1>5, <1>6, OwnerStays
<1>8. Inbox'
  BY <1>1, <1>2, <1>5, InboxStays
<1>9. Saves'
  BY <1>1, <1>2, <1>5, SavesStay
<1>10. gateReply # l /\ askReply # l
  BY <1>1, <1>2, <1>3 DEF Answers
<1>11. Gate' = Gate /\ Asked' = Asked
  BY <1>1 DEF Gate, Asked
<1>12. CASE /\ GateTakes(l) /\ gateReply' = l
            /\ late' = (IF at[driveCancel] = "gate_close" THEN late \union {l} ELSE late)
            /\ y = "answer" /\ UNCHANGED <<askReply, for, behind>>
  <2>1. /\ driveCancel \in Lines /\ Standing = at[driveCancel]
        /\ Standing \in {"gate", "gate_close"}
    BY <1>2, <1>12, GateIsOpen DEF GateTakes
  <2>2. for[l] = Gate \/ l \in behind
    BY <1>1, <1>2, <1>12, <2>1 DEF Typed, GateTakes, AtGate
  <2>3. TypeOK'
    BY <1>1, <1>2, <1>6, <1>12 DEF TypeOK, Phases
  <2>4. Answers'
    <3>1. at'[gateReply'] = "answer" /\ gateReply' # askReply' /\ gateReply = None
      BY <1>5, <1>10, <1>12 DEF GateTakes
    <3>2. askReply # None => at'[askReply] = "answer"
      BY <1>2, <1>3, <1>5, <1>10 DEF Answers
    <3>3. IF Standing = "gate" THEN for[l] = Gate \/ l \in behind ELSE l \in Unheard'
      BY <1>12, <2>1, <2>2 DEF Unheard
    <3>4. Unheard \subseteq Unheard'
      BY <1>1, <1>12 DEF Unheard
    <3>5. \A x \in Lines : at'[x] = "answer" => x \in Unheard' \/ x = gateReply' \/ x = askReply'
      BY <1>2, <1>3, <1>5, <1>12, <3>1, <3>4, SessionAssumption DEF Answers
    <3>6. askReply # None =>
          IF Standing = "asking"
            THEN for[askReply] = Asked \/ askReply \in behind
            ELSE askReply \in Unheard
      BY <1>2 DEF Answers
    <3> QED
      BY <1>7, <1>11, <1>12, <3>1, <3>2, <3>3, <3>4, <3>5, <3>6 DEF Answers
  <2>5. Typed'
    BY <1>1, <1>2, <1>5, <1>7, <1>12, TypedStays
  <2> QED
    BY <1>7, <1>8, <1>9, <2>3, <2>4, <2>5 DEF SessionInv
<1>13. CASE /\ AskTakes(l) /\ askReply' = l
            /\ late' = (IF at[driveCancel] = "ask_end" THEN late \union {l} ELSE late)
            /\ y = "answer" /\ UNCHANGED <<gateReply, for, behind>>
  <2>1. /\ driveCancel \in Lines /\ Standing = at[driveCancel]
        /\ Standing \in {"asking", "ask_end"}
    BY <1>2, <1>13, AskIsOpen DEF AskTakes
  <2>2. for[l] = Asked \/ l \in behind
    BY <1>1, <1>2, <1>13, <2>1 DEF Typed, AskTakes, AtAsk
  <2>3. TypeOK'
    BY <1>1, <1>2, <1>6, <1>13, SMTT(30) DEF TypeOK, Phases
  <2>4. Answers'
    <3>1. at'[askReply'] = "answer" /\ gateReply' # askReply' /\ askReply = None
      BY <1>5, <1>10, <1>13 DEF AskTakes
    <3>2. gateReply # None => at'[gateReply] = "answer"
      BY <1>2, <1>3, <1>5, <1>10 DEF Answers
    <3>3. IF Standing = "asking" THEN for[l] = Asked \/ l \in behind ELSE l \in Unheard'
      BY <1>13, <2>1, <2>2 DEF Unheard
    <3>4. Unheard \subseteq Unheard'
      BY <1>1, <1>13 DEF Unheard
    <3>5. \A x \in Lines : at'[x] = "answer" => x \in Unheard' \/ x = gateReply' \/ x = askReply'
      BY <1>2, <1>3, <1>5, <1>13, <3>1, <3>4, SessionAssumption DEF Answers
    <3>6. gateReply # None =>
          IF Standing = "gate"
            THEN for[gateReply] = Gate \/ gateReply \in behind
            ELSE gateReply \in Unheard
      BY <1>2 DEF Answers
    <3> QED
      BY <1>7, <1>11, <1>13, <3>1, <3>2, <3>3, <3>4, <3>5, <3>6 DEF Answers
  <2>5. Typed'
    BY <1>1, <1>2, <1>5, <1>7, <1>13, TypedStays
  <2> QED
    BY <1>7, <1>8, <1>9, <2>3, <2>4, <2>5 DEF SessionInv
<1>14. CASE /\ y = "push" /\ UNCHANGED <<gateReply, askReply, late>>
            /\ for' = [for EXCEPT ![l] = <<>>] /\ behind' = behind \ {l}
  <2>1. /\ for' \in [Lines -> Questions] /\ behind' \subseteq Lines
        /\ \A x \in Lines : x # l => for'[x] = for[x] /\ (x \in behind => x \in behind')
    BY <1>2, <1>3, <1>14 DEF Questions, TypeOK
  <2>2. TypeOK'
    BY <1>1, <1>2, <1>6, <1>14, <2>1 DEF TypeOK, Phases
  <2>3. Answers'
    BY <1>1, <1>2, <1>5, <1>7, <1>14, <2>1, AnswersStay
  <2>4. Typed'
    BY <1>1, <1>2, <1>5, <1>7, <1>14, <2>1, TypedStays
  <2> QED
    BY <1>7, <1>8, <1>9, <2>2, <2>3, <2>4 DEF SessionInv
<1>15. y = "answer" <=> at' = [at EXCEPT ![l] = "answer"]
  BY <1>3, <1>4, <1>5
<1>16. y = "push" <=> at' = [at EXCEPT ![l] = "push"]
  BY <1>3, <1>4, <1>5
<1> QED
  BY <1>12, <1>13, <1>14, <1>15, <1>16 DEF Deliver, Goto

LEMMA PushKeeps ==
  ASSUME SessionInv, NEW l \in Lines, Push(l)
  PROVE  SessionInv'
<1>1. /\ at[l] = "push" /\ box' = Append(box, l)
      /\ at' = [at EXCEPT ![l] = "queued"]
      /\ UNCHANGED <<phase, driveCancel, state, saw, aborted, gatePending, gateReply, askPending,
                     askReply, gates, asks, retried, canceller, calls, saving, stored, excused,
                     crashes, for, behind, late, forsaken>>
  BY DEF Push, Queued, Goto, session, bridges, store, history
<1>2. TypeOK /\ Owner /\ Inbox /\ Typed /\ Answers /\ Saves
  BY DEF SessionInv
<1>3. at \in [Lines -> Places] /\ box \in Seq(Lines)
  BY <1>2 DEF TypeOK
<1>4. at'[l] = "queued" /\ \A x \in Lines : x # l => at'[x] = at[x]
  BY <1>1, <1>3
<1>5. at' \in [Lines -> Places] /\ box' \in Seq(Lines)
  BY <1>1, <1>3 DEF Places
<1>6. TypeOK'
  BY <1>1, <1>2, <1>5 DEF TypeOK
<1>7. "push" \notin Live /\ "queued" \notin Live
  BY DEF Live, Parked
<1>8. Owner' /\ Standing' = Standing
  BY <1>1, <1>2, <1>4, <1>7, OwnerStays
<1>9. Inbox'
  <2>1. /\ DOMAIN box' = DOMAIN box \union {Len(box) + 1}
        /\ \A i \in DOMAIN box : box'[i] = box[i] /\ i # Len(box) + 1 /\ box[i] \in Lines
        /\ box'[Len(box) + 1] = l
    BY <1>1, <1>3
  <2>2. \A i \in DOMAIN box : box[i] # l
    BY <1>1, <1>2 DEF Inbox
  <2> QED
    BY <1>2, <1>4, <2>1, <2>2 DEF Inbox
<1>10. Answers'
  BY <1>1, <1>2, <1>4, <1>8, AnswersStay
<1>11. Saves'
  BY <1>1, <1>2, <1>4, SavesStay
<1>20. Typed'
  BY <1>1, <1>2, <1>4, <1>8, TypedStays
<1> QED
  BY <1>20, <1>6, <1>8, <1>9, <1>10, <1>11 DEF SessionInv

-----------------------------------------------------------------------------
(* Route, launch, and the drive between its questions.                      *)

LEMMA RouteFailsKeeps ==
  ASSUME SessionInv, NEW l \in Lines, RouteFails(l)
  PROVE  SessionInv'
<1>1. /\ at[l] = "routing" /\ phase' = "idle" /\ driveCancel' = None
      /\ at' = [at EXCEPT ![l] = "over"] /\ aborted' = aborted \ {l}
      /\ UNCHANGED <<state, saw, box, gatePending, gateReply, askPending, askReply,
                     gates, asks, retried, canceller, calls, saving, stored, excused, crashes,
                     for, behind, late, forsaken>>
  BY DEF RouteFails, Released, Goto, bridges, store, history
<1>2. TypeOK /\ Owner /\ Inbox /\ Typed /\ Answers /\ Saves
  BY DEF SessionInv
<1>3. at \in [Lines -> Places]
  BY <1>2 DEF TypeOK
<1>4. at'[l] = "over" /\ \A x \in Lines : x # l => at'[x] = at[x]
  BY <1>1, <1>3
<1>5. at' \in [Lines -> Places]
  BY <1>1, <1>3 DEF Places
<1>6. TypeOK'
  BY <1>1, <1>2, <1>5 DEF TypeOK, Phases
<1>7. /\ Standing = "routing" /\ phase = "routing" /\ ~gatePending /\ ~askPending
      /\ \A x \in Lines : x # l => at[x] \notin Live
  BY <1>1, <1>2, OwnerIs DEF Live, PhaseOf
<1>8. Owner' /\ Standing' = "nowhere"
  <2>1. \A x \in Lines : at'[x] \notin Live
    BY <1>4, <1>7 DEF Live, Parked
  <2>2. gatePending' = FALSE /\ askPending' = FALSE
    BY <1>1, <1>2, <1>7 DEF TypeOK
  <2> QED
    BY <1>1, <2>1, <2>2, NobodyOwns
<1>9. Inbox'
  BY <1>1, <1>2, <1>4, InboxStays
<1>10. Answers'
  BY <1>1, <1>2, <1>4, <1>7, <1>8, AnswersStay
<1>11. Saves'
  BY <1>1, <1>2, <1>4, <1>7, SavesStay
<1>20. Typed'
  BY <1>1, <1>2, <1>4, <1>8, TypedStays DEF AtGate, AtAsk
<1> QED
  BY <1>20, <1>6, <1>8, <1>9, <1>10, <1>11 DEF SessionInv

LEMMA LaunchKeeps ==
  ASSUME SessionInv, NEW l \in Lines, Launch(l)
  PROVE  SessionInv'
<1>1. /\ at[l] = "routing" /\ phase' = "working"
      /\ state' = [state EXCEPT !.active = RouteOf[l]]
      /\ at' = [at EXCEPT ![l] = "working"]
      /\ UNCHANGED <<driveCancel, saw, aborted, box, gatePending, gateReply, askPending, askReply,
                     gates, asks, retried, canceller, calls, saving, stored, excused, crashes,
                     for, behind, late, forsaken>>
  BY DEF Launch, Goto, bridges, store, history
<1>2. TypeOK /\ Owner /\ Inbox /\ Typed /\ Answers /\ Saves
  BY DEF SessionInv
<1>3. at \in [Lines -> Places]
  BY <1>2 DEF TypeOK
<1>4. at'[l] = "working" /\ \A x \in Lines : x # l => at'[x] = at[x]
  BY <1>1, <1>3
<1>5. at' \in [Lines -> Places]
  BY <1>1, <1>3 DEF Places, Live
<1>6. state' \in States
  BY <1>1, <1>2, RouteAssumption DEF TypeOK, States
<1>7. TypeOK'
  BY <1>1, <1>2, <1>5, <1>6 DEF TypeOK, Phases
<1>8. /\ Standing = "routing" /\ driveCancel = l
      /\ ~gatePending /\ ~askPending
      /\ \A x \in Lines : x # l => at[x] \notin Live
  BY <1>1, <1>2, OwnerIs DEF Live, PhaseOf
<1>9. Owner' /\ Standing' = "working"
  BY <1>1, <1>4, <1>8, OwnerSteps DEF Live, PhaseOf
<1>10. Inbox'
  BY <1>1, <1>2, <1>4, InboxStays
<1>11. Answers'
  BY <1>1, <1>2, <1>4, <1>8, <1>9, AnswersStay
<1>12. Saves'
  BY <1>1, <1>2, <1>4 DEF Saves
<1>20. Typed'
  BY <1>1, <1>2, <1>4, <1>9, TypedStays DEF AtGate, AtAsk
<1> QED
  BY <1>20, <1>7, <1>9, <1>10, <1>11, <1>12 DEF SessionInv

LEMMA DrainKeeps ==
  ASSUME SessionInv, NEW d \in Lines, Drain(d)
  PROVE  SessionInv'
<1>1. /\ at[d] = "working" /\ box' = <<>>
      /\ at' = [l \in Lines |-> IF l \in ToSet(box) THEN "over" ELSE at[l]]
      /\ UNCHANGED <<phase, driveCancel, state, saw, aborted, gatePending, gateReply, askPending,
                     askReply, gates, asks, retried, canceller, calls, saving, stored, excused,
                     crashes, for, behind, late, forsaken>>
  BY DEF Drain, session, bridges, store, history
<1>2. TypeOK /\ Owner /\ Inbox /\ Typed /\ Answers /\ Saves
  BY DEF SessionInv
<1>3. at \in [Lines -> Places]
  BY <1>2 DEF TypeOK
<1>4. \A x \in Lines : \/ at'[x] = at[x] /\ at[x] # "queued"
                       \/ at'[x] = "over" /\ at[x] = "queued"
  BY <1>1, <1>2 DEF Inbox, ToSet
<1>5. at' \in [Lines -> Places] /\ box' \in Seq(Lines)
  BY <1>1, <1>3 DEF Places
<1>6. TypeOK'
  BY <1>1, <1>2, <1>5 DEF TypeOK
<1>7. "queued" \notin Live /\ "over" \notin Live
  BY DEF Live, Parked
<1>8. Owner' /\ Standing' = Standing
  BY <1>1, <1>2, <1>4, <1>7, OwnerStays
<1>9. Inbox'
  BY <1>1, <1>4 DEF Inbox
<1>10. Answers'
  BY <1>1, <1>2, <1>4, <1>8, AnswersStay
<1>11. Saves'
  BY <1>1, <1>2, <1>4, SavesStay
<1>20. Typed'
  BY <1>1, <1>2, <1>4, <1>8, TypedStays
<1> QED
  BY <1>20, <1>6, <1>8, <1>9, <1>10, <1>11 DEF SessionInv

\* A snapshot that is the state of an idle conversation sets out: alone, or excused.
LEMMA SaveSays ==
  ASSUME TypeOK, NEW who \in Lines \union {Door}, state' \in States, Save(who, state'),
         who \in Lines => at'[who] = "saving",
         \A l \in Lines : l # who /\ saving[l] # None => at'[l] = "saving"
  PROVE  /\ Saves' /\ saving' \in [Lines \union {Door} -> States \union {None}]
         /\ excused' \in BOOLEAN /\ stored' = stored
<1>1. /\ saving' = [saving EXCEPT ![who] = state'] /\ stored' = stored
      /\ excused' = (\E s \in DOMAIN saving : saving[s] # None)
  BY DEF Save
<1>2. saving \in [Lines \union {Door} -> States \union {None}]
  BY DEF TypeOK
<1>3. /\ saving' \in [Lines \union {Door} -> States \union {None}]
      /\ saving'[who] = state'
      /\ \A s \in Lines \union {Door} : s # who => saving'[s] = saving[s]
  BY <1>1, <1>2
<1>4. ~excused' => \A s \in Lines \union {Door} : s # who => saving'[s] = None
  BY <1>1, <1>2, <1>3
<1>5. state' # None
  BY StateAssumption
<1>6. Saves'
  <2>1. \A l \in Lines : saving'[l] # None => at'[l] = "saving"
    BY <1>3
  <2> QED
    BY <1>3, <1>4, <1>5, <2>1 DEF Saves
<1> QED
  BY <1>1, <1>3, <1>6

LEMMA DriveEndsKeeps ==
  ASSUME SessionInv, NEW d \in Lines, DriveEnds(d)
  PROVE  SessionInv'
<1>1. /\ at[d] = "working" /\ state' \in Outcomes(d) /\ phase' = "idle" /\ driveCancel' = None
      /\ Save(d, state') /\ at' = [at EXCEPT ![d] = "saving"]
      /\ gates' = [gates EXCEPT ![d] = 0] /\ asks' = [asks EXCEPT ![d] = 0]
      /\ UNCHANGED <<saw, aborted, box, gatePending, gateReply, askPending, askReply, retried,
                     canceller, calls, crashes, for, behind, late, forsaken>>
  BY DEF DriveEnds, Released, Snapshot, Goto, history
<1>2. TypeOK /\ Owner /\ Inbox /\ Typed /\ Answers /\ Saves
  BY DEF SessionInv
<1>3. at \in [Lines -> Places]
  BY <1>2 DEF TypeOK
<1>4. at'[d] = "saving" /\ \A x \in Lines : x # d => at'[x] = at[x]
  BY <1>1, <1>3
<1>5. at' \in [Lines -> Places]
  BY <1>1, <1>3 DEF Places
<1>6. state' \in States
  BY <1>1, <1>2 DEF Outcomes, TypeOK, States
<1>7. /\ Saves' /\ saving' \in [Lines \union {Door} -> States \union {None}]
      /\ excused' \in BOOLEAN /\ stored' = stored
  BY <1>1, <1>2, <1>4, <1>6, SaveSays DEF Saves
<1>8. gates' \in [Lines -> 0 .. MaxQuestions] /\ asks' \in [Lines -> 0 .. MaxQuestions]
  BY <1>1, <1>2, SessionAssumption DEF TypeOK
<1>9. TypeOK'
  BY <1>1, <1>2, <1>5, <1>6, <1>7, <1>8 DEF TypeOK, Phases
<1>10. /\ Standing = "working" /\ ~gatePending /\ ~askPending
       /\ \A x \in Lines : x # d => at[x] \notin Live
  BY <1>1, <1>2, OwnerIs DEF Live, PhaseOf
<1>11. Owner' /\ Standing' = "nowhere"
  <2>1. \A x \in Lines : at'[x] \notin Live
    BY <1>4, <1>10 DEF Live, Parked
  <2>2. gatePending' = FALSE /\ askPending' = FALSE
    BY <1>1, <1>2, <1>10 DEF TypeOK
  <2> QED
    BY <1>1, <2>1, <2>2, NobodyOwns
<1>12. Inbox'
  BY <1>1, <1>2, <1>4, InboxStays
<1>13. Answers'
  BY <1>1, <1>2, <1>4, <1>10, <1>11, AnswersStay
<1>20. Typed'
  BY <1>1, <1>2, <1>4, <1>11, TypedStays DEF AtGate, AtAsk
<1> QED
  BY <1>20, <1>7, <1>9, <1>11, <1>12, <1>13 DEF SessionInv

LEMMA SaveEndsKeeps ==
  ASSUME SessionInv, NEW who \in Lines \union {Door}, SaveEnds(who)
  PROVE  SessionInv'
<1>1. /\ saving[who] # None
      /\ \/ stored' = saving[who] /\ UNCHANGED excused
         \/ excused' = TRUE /\ UNCHANGED stored
      /\ saving' = [saving EXCEPT ![who] = None]
      /\ at' = IF who \in Lines THEN [at EXCEPT ![who] = "over"] ELSE at
      /\ aborted' = aborted \ {who}
      /\ UNCHANGED <<phase, driveCancel, state, saw, box, gatePending, gateReply, askPending,
                     askReply, gates, asks, retried, canceller, calls, crashes,
                     for, behind, late, forsaken>>
  BY DEF SaveEnds, Goto, session, bridges, history
<1>2. TypeOK /\ Owner /\ Inbox /\ Typed /\ Answers /\ Saves
  BY DEF SessionInv
<1>3. at \in [Lines -> Places] /\ saving \in [Lines \union {Door} -> States \union {None}]
  BY <1>2 DEF TypeOK
<1>4. /\ \A x \in Lines : x # who => at'[x] = at[x]
      /\ who \in Lines => at[who] = "saving" /\ at'[who] = "over"
  BY <1>1, <1>2, <1>3 DEF Saves
<1>5. at' \in [Lines -> Places]
  BY <1>1, <1>3 DEF Places
<1>6. /\ saving' \in [Lines \union {Door} -> States \union {None}] /\ saving'[who] = None
      /\ \A s \in Lines \union {Door} : s # who => saving'[s] = saving[s]
  BY <1>1, <1>3
<1>7. stored' \in States /\ excused' \in BOOLEAN
  BY <1>1, <1>2, <1>3 DEF TypeOK
<1>8. TypeOK'
  BY <1>1, <1>2, <1>5, <1>6, <1>7 DEF TypeOK
<1>9. "saving" \notin Live /\ "over" \notin Live
  BY DEF Live, Parked
<1>10. Owner' /\ Standing' = Standing
  BY <1>1, <1>2, <1>4, <1>9, OwnerStays
<1>11. Inbox'
  BY <1>1, <1>2, <1>4, InboxStays
<1>12. Answers'
  BY <1>1, <1>2, <1>4, <1>10, AnswersStay
<1>13. Saves'
  <2>1. \A l \in Lines : saving'[l] # None => at'[l] = "saving"
    BY <1>2, <1>4, <1>6 DEF Saves
  <2>2. ASSUME ~excused' PROVE ~excused /\ stored' = saving[who]
    BY <1>1, <1>2, <2>2 DEF TypeOK
  <2>3. ASSUME ~excused' PROVE \A s \in Lines \union {Door} : saving'[s] = None
    BY <1>1, <1>2, <1>6, <2>2, <2>3 DEF Saves
  <2>4. ASSUME ~excused', phase' \in {"idle", "routing"} PROVE stored' = state'
    BY <1>1, <1>2, <2>2, <2>4 DEF Saves
  <2> QED
    BY <2>1, <2>3, <2>4 DEF Saves
<1>20. Typed'
  BY <1>1, <1>2, <1>4, <1>10, TypedStays
<1> QED
  BY <1>20, <1>8, <1>10, <1>11, <1>12, <1>13 DEF SessionInv

-----------------------------------------------------------------------------
(* The bridges.                                                             *)

\* A drive at one of its questions, or between two of them, moves to another place there.
LEMMA DriveMoves ==
  ASSUME TypeOK, Owner, NEW d \in Lines, at[d] \in Live \ {"routing"}, NEW y \in Live \ {"routing"},
         at' = [at EXCEPT ![d] = y], driveCancel' = driveCancel,
         phase' = PhaseOf(y),
         gatePending' <=> y \in {"gate", "gate_close"},
         askPending' <=> y \in {"asking", "ask_end"}
  PROVE  /\ at' \in [Lines -> Places] /\ at'[d] = y
         /\ \A x \in Lines : x # d => at'[x] = at[x]
         /\ driveCancel = d /\ Standing = at[d] /\ Owner' /\ Standing' = y
         /\ phase \notin {"idle", "routing"} /\ phase' \in Phases \ {"idle", "routing"}
<1>1. at \in [Lines -> Places]
  BY DEF TypeOK
<1>2. /\ at' \in [Lines -> Places] /\ at'[d] = y
      /\ \A x \in Lines : x # d => at'[x] = at[x]
  BY <1>1 DEF Places
<1>3. /\ driveCancel = d /\ Standing = at[d] /\ phase = PhaseOf(at[d])
      /\ \A x \in Lines : x # d => at[x] \notin Live
  BY OwnerIs
<1>4. Owner' /\ Standing' = y
  BY <1>2, <1>3, OwnerSteps
<1>5. \A z \in Live \ {"routing"} : PhaseOf(z) \in {"working", "awaiting_gate", "awaiting_input"}
  BY DEF PhaseOf
<1>6. phase \notin {"idle", "routing"} /\ phase' \in Phases \ {"idle", "routing"}
  BY <1>3, <1>5 DEF Phases
<1> QED
  BY <1>2, <1>3, <1>4, <1>6

\* ... which leaves the inbox and the saves alone.
LEMMA MovesApart ==
  ASSUME TypeOK, Inbox, Saves, NEW d \in Lines, at[d] \in Live, at'[d] \in Live,
         \A x \in Lines : x # d => at'[x] = at[x] \/ (at[x] = "answer" /\ at'[x] = "over"),
         UNCHANGED <<box, saving, stored, state, excused>>,
         phase \notin {"idle", "routing"}, phase' \notin {"idle", "routing"}
  PROVE  Inbox' /\ Saves'
<1>1. \A x \in Lines : at'[x] = "queued" <=> at[x] = "queued"
  BY DEF Live, Parked
<1>2. \A x \in Lines : at[x] = "saving" => at'[x] = "saving"
  BY DEF Live, Parked
<1> QED
  BY <1>1, <1>2, InboxStays, SavesStay

LEMMA GateOpensKeeps ==
  ASSUME SessionInv, NEW d \in Lines, GateOpens(d)
  PROVE  SessionInv'
<1>1. /\ at[d] = "working" /\ MayAsk(d) /\ Enter("awaiting_gate")
      /\ gatePending' = TRUE /\ gateReply' = None
      /\ gates' = [gates EXCEPT ![d] = @ + 1] /\ at' = [at EXCEPT ![d] = "gate"]
      /\ Overtakes("awaiting_gate")
      /\ UNCHANGED <<driveCancel, state, saw, aborted, box, canceller, calls, saving, stored,
                     excused, crashes, askPending, askReply, asks, retried, for, late, forsaken>>
  BY DEF GateOpens, CleanGate, Goto, parked, store
<1>2. TypeOK /\ Owner /\ Inbox /\ Typed /\ Answers /\ Saves
  BY DEF SessionInv
<1>3. "working" \in Live \ {"routing"} /\ "gate" \in Live \ {"routing"}
  BY DEF Live, Parked
<1>4. phase = "working" /\ ~askPending
  BY <1>1, <1>2, <1>3, OwnerIs DEF PhaseOf
<1>5. phase' = PhaseOf("gate")
  BY <1>1, <1>4 DEF Enter, PhaseOf
<1>6. /\ at' \in [Lines -> Places] /\ at'[d] = "gate"
      /\ \A x \in Lines : x # d => at'[x] = at[x]
      /\ driveCancel = d /\ Standing = at[d] /\ Owner' /\ Standing' = "gate"
      /\ phase \notin {"idle", "routing"} /\ phase' \in Phases \ {"idle", "routing"}
  BY <1>1, <1>2, <1>3, <1>4, <1>5, DriveMoves
<1>7. gates' \in [Lines -> 0 .. MaxQuestions]
  <2>1. gates[d] + 1 \in 0 .. MaxQuestions
    BY <1>1, <1>2, SessionAssumption, SMTT(30) DEF TypeOK, MayAsk
  <2> QED
    BY <1>1, <1>2, <2>1 DEF TypeOK
<1>8. TypeOK'
  BY <1>1, <1>2, <1>6, <1>7 DEF TypeOK, Overtakes
<1>9. Inbox' /\ Saves'
  BY <1>1, <1>2, <1>3, <1>6, MovesApart
<1>10. Answers'
  <2>1. \A l \in Lines : at'[l] = "answer" => at[l] = "answer"
    BY <1>6
  <2>2. gateReply # None => gateReply \in Unheard
    BY <1>1, <1>2, <1>6 DEF Answers
  <2>3. askReply # None => askReply \in Unheard /\ at'[askReply] = "answer"
    BY <1>1, <1>2, <1>6 DEF Answers, TypeOK
  <2>4. Unheard' = Unheard
    BY <1>1 DEF Unheard
  <2> QED
    BY <1>1, <1>2, <1>6, <2>1, <2>2, <2>3, <2>4, SessionAssumption DEF Answers
<1>20. Typed'
  <2>1. \A l \in Lines : at'[l] = "deliver" /\ saw'[l] = "awaiting_gate" => l \in behind'
    BY <1>1, <1>6 DEF Overtakes
  <2> QED
    BY <1>6, <2>1 DEF Typed, AtGate, AtAsk
<1> QED
  BY <1>20, <1>6, <1>8, <1>9, <1>10 DEF SessionInv

\* A line that the question reads is over, and the channel is empty again.
LEMMA ReadsSays ==
  ASSUME TypeOK, Owner, Answers, NEW d \in Lines, NEW l \in Lines, NEW y \in Live,
         at[d] \in Live, at[l] = "answer", Reads(d, l, y)
  PROVE  /\ at' \in [Lines -> Places] /\ at'[d] = y /\ at'[l] = "over"
         /\ \A x \in Lines : x # d /\ x # l => at'[x] = at[x]
         /\ for' \in [Lines -> Questions] /\ \A x \in Lines : x # l => for'[x] = for[x]
         /\ behind' = behind \ {l} /\ l # d /\ UNCHANGED <<late, forsaken>>
<1>1. /\ for' = [for EXCEPT ![l] = <<>>] /\ behind' = behind \ {l}
      /\ UNCHANGED <<late, forsaken>>
      /\ at' = [at EXCEPT ![l] = "over", ![d] = y]
  BY DEF Reads
<1>2. at \in [Lines -> Places] /\ for \in [Lines -> Questions]
  BY DEF TypeOK
<1>3. l # d
  BY DEF Live, Parked
<1>4. /\ at' \in [Lines -> Places] /\ at'[d] = y /\ at'[l] = "over"
      /\ \A x \in Lines : x # d /\ x # l => at'[x] = at[x]
  BY <1>1, <1>2, <1>3 DEF Places
<1>5. for' \in [Lines -> Questions] /\ \A x \in Lines : x # l => for'[x] = for[x]
  BY <1>1, <1>2 DEF Questions
<1> QED
  BY <1>1, <1>3, <1>4, <1>5

LEMMA GateReadsKeeps ==
  ASSUME SessionInv, NEW d \in Lines, GateReads(d)
  PROVE  SessionInv'
<1>1. PICK y \in {"gate", "gate_close"} :
        /\ at[d] = "gate" /\ gateReply # None /\ Reads(d, gateReply, y) /\ gateReply' = None
        /\ UNCHANGED <<driveCancel, state, saw, aborted, box, canceller, calls, saving, stored,
                       excused, crashes, phase, gatePending, askPending, askReply, gates, asks,
                       retried>>
  <2> DEFINE y == IF gateReply \in YesNo THEN "gate_close" ELSE "gate"
  <2>1. y \in {"gate", "gate_close"}
    OBVIOUS
  <2>2. /\ at[d] = "gate" /\ gateReply # None /\ Reads(d, gateReply, y) /\ gateReply' = None
        /\ UNCHANGED <<driveCancel, state, saw, aborted, box, canceller, calls, saving, stored,
                       excused, crashes, phase, gatePending, askPending, askReply, gates, asks,
                       retried>>
    BY DEF GateReads, parked, store
  <2> HIDE DEF y
  <2> QED
    BY <2>1, <2>2
<1>2. TypeOK /\ Owner /\ Inbox /\ Typed /\ Answers /\ Saves
  BY DEF SessionInv
<1>3. gateReply \in Lines /\ at[gateReply] = "answer"
  BY <1>1, <1>2 DEF TypeOK, Answers
<1>4. "gate" \in Live /\ y \in Live
  BY DEF Live, Parked
<1>5. /\ at' \in [Lines -> Places] /\ at'[d] = y /\ at'[gateReply] = "over"
      /\ \A x \in Lines : x # d /\ x # gateReply => at'[x] = at[x]
      /\ for' \in [Lines -> Questions] /\ \A x \in Lines : x # gateReply => for'[x] = for[x]
      /\ behind' = behind \ {gateReply} /\ gateReply # d /\ UNCHANGED <<late, forsaken>>
  BY <1>1, <1>2, <1>3, <1>4, ReadsSays
<1>6. /\ driveCancel = d /\ Standing = "gate" /\ phase = "awaiting_gate"
      /\ \A x \in Lines : x # d => at[x] \notin Live
      /\ gatePending /\ ~askPending
  BY <1>1, <1>2, <1>4, OwnerIs DEF PhaseOf
<1>7. TypeOK'
  BY <1>1, <1>2, <1>5 DEF TypeOK
<1>8. Owner' /\ Standing' = y
  <2>1. \A x \in Lines : x # d => at'[x] \notin Live
    BY <1>5, <1>6 DEF Live, Parked
  <2>2. PhaseOf(y) = "awaiting_gate"
    BY DEF PhaseOf
  <2> QED
    BY <1>1, <1>4, <1>5, <1>6, <2>1, <2>2, OwnerSteps
<1>9. Inbox' /\ Saves'
  BY <1>1, <1>2, <1>3, <1>4, <1>5, <1>6, MovesApart
<1>10. Answers'
  <2>1. askReply # None =>
          askReply \in Lines /\ askReply # gateReply /\ askReply # d /\ askReply \in Unheard
    BY <1>1, <1>2, <1>6 DEF TypeOK, Answers
  <2>2. askReply # None => at'[askReply] = "answer" /\ askReply \in Unheard'
    BY <1>2, <1>5, <2>1 DEF Answers, Unheard
  <2>3. ASSUME NEW l \in Lines, at'[l] = "answer" PROVE l \in Unheard' \/ l = askReply
    BY <1>2, <1>5, <2>3 DEF Answers, Unheard
  <2> QED
    BY <1>1, <1>8, <2>2, <2>3 DEF Answers
<1>20. Typed'
  BY <1>1, <1>2, <1>5, <1>6, <1>8, TypedStays DEF AtGate, AtAsk
<1> QED
  BY <1>20, <1>7, <1>8, <1>9, <1>10 DEF SessionInv

LEMMA GateDeniesKeeps ==
  ASSUME SessionInv, NEW d \in Lines, GateDenies(d)
  PROVE  SessionInv'
<1>1. /\ at[d] = "gate" /\ forsaken' = forsaken \union ({gateReply} \ {None})
      /\ at' = [at EXCEPT ![d] = "gate_close"]
      /\ UNCHANGED <<driveCancel, state, saw, aborted, box, canceller, calls, saving, stored,
                     excused, crashes, phase, gatePending, gateReply, askPending, askReply,
                     gates, asks, retried, for, behind, late>>
  BY DEF GateDenies, Goto, parked, bridges, store
<1>2. TypeOK /\ Owner /\ Inbox /\ Typed /\ Answers /\ Saves
  BY DEF SessionInv
<1>3. "gate" \in Live \ {"routing"} /\ "gate_close" \in Live \ {"routing"}
  BY DEF Live, Parked
<1>4. phase = "awaiting_gate" /\ ~askPending /\ gatePending
  BY <1>1, <1>2, <1>3, OwnerIs DEF PhaseOf
<1>5. phase' = PhaseOf("gate_close")
  BY <1>1, <1>4 DEF PhaseOf
<1>6. /\ at' \in [Lines -> Places] /\ at'[d] = "gate_close"
      /\ \A x \in Lines : x # d => at'[x] = at[x]
      /\ driveCancel = d /\ Standing = at[d] /\ Owner' /\ Standing' = "gate_close"
      /\ phase \notin {"idle", "routing"} /\ phase' \in Phases \ {"idle", "routing"}
  BY <1>1, <1>2, <1>3, <1>4, <1>5, DriveMoves
<1>7. TypeOK'
  BY <1>1, <1>2, <1>6 DEF TypeOK
<1>8. Inbox' /\ Saves'
  BY <1>1, <1>2, <1>3, <1>6, MovesApart
<1>9. Answers'
  <2>1. gateReply # None => at'[gateReply] = "answer" /\ gateReply \in Unheard'
    BY <1>1, <1>2, <1>6 DEF Answers, TypeOK, Unheard
  <2>2. askReply # None => at'[askReply] = "answer" /\ askReply \in Unheard'
    BY <1>1, <1>2, <1>6 DEF Answers, TypeOK, Unheard
  <2>3. \A l \in Lines : at'[l] = "answer" => l \in Unheard' \/ l = gateReply \/ l = askReply
    BY <1>1, <1>2, <1>6 DEF Answers, Unheard
  <2> QED
    BY <1>1, <1>2, <1>6, <2>1, <2>2, <2>3 DEF Answers
<1>20. Typed'
  BY <1>1, <1>2, <1>6, TypedStays DEF AtGate, AtAsk
<1> QED
  BY <1>20, <1>6, <1>7, <1>8, <1>9 DEF SessionInv

LEMMA GateClosesKeeps ==
  ASSUME SessionInv, NEW d \in Lines, GateCloses(d)
  PROVE  SessionInv'
<1>1. /\ at[d] = "gate_close" /\ gatePending' = FALSE /\ Leave("awaiting_gate")
      /\ at' = [at EXCEPT ![d] = "working"]
      /\ UNCHANGED <<driveCancel, state, saw, aborted, box, canceller, calls, saving, stored,
                     excused, crashes, gateReply, askPending, askReply, gates, asks, retried,
                     for, behind, late, forsaken>>
  BY DEF GateCloses, ShutGate, Goto, parked, store, history
<1>2. TypeOK /\ Owner /\ Inbox /\ Typed /\ Answers /\ Saves
  BY DEF SessionInv
<1>3. "gate_close" \in Live \ {"routing"} /\ "working" \in Live \ {"routing"}
  BY DEF Live, Parked
<1>4. phase = "awaiting_gate" /\ ~askPending
  BY <1>1, <1>2, <1>3, OwnerIs DEF PhaseOf
<1>5. phase' = PhaseOf("working")
  BY <1>1, <1>4 DEF Leave, PhaseOf
<1>6. /\ at' \in [Lines -> Places] /\ at'[d] = "working"
      /\ \A x \in Lines : x # d => at'[x] = at[x]
      /\ driveCancel = d /\ Standing = at[d] /\ Owner' /\ Standing' = "working"
      /\ phase \notin {"idle", "routing"} /\ phase' \in Phases \ {"idle", "routing"}
  BY <1>1, <1>2, <1>3, <1>4, <1>5, DriveMoves
<1>7. TypeOK'
  BY <1>1, <1>2, <1>6 DEF TypeOK
<1>8. Inbox' /\ Saves'
  BY <1>1, <1>2, <1>3, <1>6, MovesApart
<1>9. Answers'
  BY <1>1, <1>2, <1>6, AnswersStay
<1>20. Typed'
  BY <1>1, <1>2, <1>6, TypedStays DEF AtGate, AtAsk
<1> QED
  BY <1>20, <1>6, <1>7, <1>8, <1>9 DEF SessionInv

LEMMA AskParksKeeps ==
  ASSUME SessionInv, NEW d \in Lines, AskParks(d)
  PROVE  SessionInv'
<1>1. /\ at[d] = "working" /\ MayAsk(d) /\ Enter("awaiting_input")
      /\ asks' = [asks EXCEPT ![d] = @ + 1] /\ at' = [at EXCEPT ![d] = "ask"]
      /\ Overtakes("awaiting_input")
      /\ UNCHANGED <<driveCancel, state, saw, aborted, box, canceller, calls, saving, stored,
                     excused, crashes, gatePending, gateReply, askPending, askReply, gates,
                     retried, for, late, forsaken>>
  BY DEF AskParks, Goto, parked, store
<1>2. TypeOK /\ Owner /\ Inbox /\ Typed /\ Answers /\ Saves
  BY DEF SessionInv
<1>3. "working" \in Live \ {"routing"} /\ "ask" \in Live \ {"routing"}
  BY DEF Live, Parked
<1>4. phase = "working" /\ ~askPending /\ ~gatePending
  BY <1>1, <1>2, <1>3, OwnerIs DEF PhaseOf
<1>5. phase' = PhaseOf("ask")
  BY <1>1, <1>4 DEF Enter, PhaseOf
<1>6. /\ at' \in [Lines -> Places] /\ at'[d] = "ask"
      /\ \A x \in Lines : x # d => at'[x] = at[x]
      /\ driveCancel = d /\ Standing = at[d] /\ Owner' /\ Standing' = "ask"
      /\ phase \notin {"idle", "routing"} /\ phase' \in Phases \ {"idle", "routing"}
  BY <1>1, <1>2, <1>3, <1>4, <1>5, DriveMoves
<1>7. asks' \in [Lines -> 0 .. MaxQuestions]
  <2>1. asks[d] + 1 \in 0 .. MaxQuestions
    BY <1>1, <1>2, SessionAssumption, SMTT(30) DEF TypeOK, MayAsk
  <2> QED
    BY <1>1, <1>2, <2>1 DEF TypeOK
<1>8. TypeOK'
  BY <1>1, <1>2, <1>6, <1>7 DEF TypeOK, Overtakes
<1>9. Inbox' /\ Saves'
  BY <1>1, <1>2, <1>3, <1>6, MovesApart
<1>10. Answers'
  BY <1>1, <1>2, <1>6, AnswersStay DEF Overtakes
<1>20. Typed'
  <2>1. \A l \in Lines : at'[l] = "deliver" /\ saw'[l] = "awaiting_input" => l \in behind'
    BY <1>1, <1>6 DEF Overtakes
  <2> QED
    BY <1>6, <2>1 DEF Typed, AtGate, AtAsk
<1> QED
  BY <1>20, <1>6, <1>8, <1>9, <1>10 DEF SessionInv

\* The ask box opens, or is shut, and what is in its channel is unheard.
LEMMA AskClears ==
  ASSUME TypeOK, Answers, askReply' = None, UNCHANGED <<gateReply, late, forsaken>>,
         \A x \in Lines : at'[x] = "answer" <=> at[x] = "answer",
         Standing \notin {"gate", "asking"}, Standing' # "gate"
  PROVE  Answers'
<1>1. gateReply # None => at'[gateReply] = "answer" /\ gateReply \in Unheard
  BY DEF Answers, TypeOK
<1>2. askReply # None => askReply \in Unheard
  BY DEF Answers
<1>3. \A l \in Lines : at'[l] = "answer" => l \in Unheard \/ l = gateReply
  BY <1>2, SessionAssumption DEF Answers
<1>4. Unheard' = Unheard
  BY DEF Unheard
<1> QED
  BY <1>1, <1>3, <1>4 DEF Answers

LEMMA AskBeginsKeeps ==
  ASSUME SessionInv, NEW d \in Lines, AskBegins(d)
  PROVE  SessionInv'
<1>1. /\ at[d] = "ask" /\ askPending' = TRUE /\ askReply' = None /\ retried' = FALSE
      /\ at' = [at EXCEPT ![d] = "asking"]
      /\ UNCHANGED <<driveCancel, state, saw, aborted, box, canceller, calls, saving, stored,
                     excused, crashes, phase, gatePending, gateReply, gates, asks,
                     for, behind, late, forsaken>>
  BY DEF AskBegins, Goto, parked, store, history
<1>2. TypeOK /\ Owner /\ Inbox /\ Typed /\ Answers /\ Saves
  BY DEF SessionInv
<1>3. "ask" \in Live \ {"routing"} /\ "asking" \in Live \ {"routing"}
  BY DEF Live, Parked
<1>4. phase = "awaiting_input" /\ ~gatePending
  BY <1>1, <1>2, <1>3, OwnerIs DEF PhaseOf
<1>5. phase' = PhaseOf("asking")
  BY <1>1, <1>4 DEF PhaseOf
<1>6. /\ at' \in [Lines -> Places] /\ at'[d] = "asking"
      /\ \A x \in Lines : x # d => at'[x] = at[x]
      /\ driveCancel = d /\ Standing = at[d] /\ Owner' /\ Standing' = "asking"
      /\ phase \notin {"idle", "routing"} /\ phase' \in Phases \ {"idle", "routing"}
  BY <1>1, <1>2, <1>3, <1>4, <1>5, DriveMoves
<1>7. TypeOK'
  BY <1>1, <1>2, <1>6 DEF TypeOK
<1>8. Inbox' /\ Saves'
  BY <1>1, <1>2, <1>3, <1>6, MovesApart
<1>9. Answers'
  BY <1>1, <1>2, <1>6, AskClears
<1>20. Typed'
  BY <1>1, <1>2, <1>6, TypedStays DEF AtGate, AtAsk
<1> QED
  BY <1>20, <1>6, <1>7, <1>8, <1>9 DEF SessionInv

LEMMA AskReadsKeeps ==
  ASSUME SessionInv, NEW d \in Lines, AskReads(d)
  PROVE  SessionInv'
<1>1. PICK y \in {"asking", "ask_end"} :
        /\ at[d] = "asking" /\ askReply # None /\ Reads(d, askReply, y) /\ askReply' = None
        /\ retried' \in BOOLEAN
        /\ UNCHANGED <<driveCancel, state, saw, aborted, box, canceller, calls, saving, stored,
                       excused, crashes, phase, gatePending, gateReply, askPending, gates, asks>>
  BY DEF AskReads, parked, store
<1>2. TypeOK /\ Owner /\ Inbox /\ Typed /\ Answers /\ Saves
  BY DEF SessionInv
<1>3. askReply \in Lines /\ at[askReply] = "answer"
  BY <1>1, <1>2 DEF TypeOK, Answers
<1>4. "asking" \in Live /\ y \in Live
  BY DEF Live, Parked
<1>5. /\ at' \in [Lines -> Places] /\ at'[d] = y /\ at'[askReply] = "over"
      /\ \A x \in Lines : x # d /\ x # askReply => at'[x] = at[x]
      /\ for' \in [Lines -> Questions] /\ \A x \in Lines : x # askReply => for'[x] = for[x]
      /\ behind' = behind \ {askReply} /\ askReply # d /\ UNCHANGED <<late, forsaken>>
  BY <1>1, <1>2, <1>3, <1>4, ReadsSays
<1>6. /\ driveCancel = d /\ Standing = "asking" /\ phase = "awaiting_input"
      /\ \A x \in Lines : x # d => at[x] \notin Live
      /\ askPending /\ ~gatePending
  BY <1>1, <1>2, <1>4, OwnerIs DEF PhaseOf
<1>7. TypeOK'
  BY <1>1, <1>2, <1>5 DEF TypeOK
<1>8. Owner' /\ Standing' = y
  <2>1. \A x \in Lines : x # d => at'[x] \notin Live
    BY <1>5, <1>6 DEF Live, Parked
  <2>2. PhaseOf(y) = "awaiting_input"
    BY DEF PhaseOf
  <2> QED
    BY <1>1, <1>4, <1>5, <1>6, <2>1, <2>2, OwnerSteps
<1>9. Inbox' /\ Saves'
  BY <1>1, <1>2, <1>3, <1>4, <1>5, <1>6, MovesApart
<1>10. Answers'
  <2>1. gateReply # None =>
          gateReply \in Lines /\ gateReply # askReply /\ gateReply # d /\ gateReply \in Unheard
    BY <1>1, <1>2, <1>6 DEF TypeOK, Answers
  <2>2. gateReply # None => at'[gateReply] = "answer" /\ gateReply \in Unheard'
    BY <1>2, <1>5, <2>1 DEF Answers, Unheard
  <2>3. ASSUME NEW l \in Lines, at'[l] = "answer" PROVE l \in Unheard' \/ l = gateReply
    BY <1>2, <1>5, <2>3 DEF Answers, Unheard
  <2> QED
    BY <1>1, <1>8, <2>2, <2>3 DEF Answers
<1>20. Typed'
  BY <1>1, <1>2, <1>5, <1>6, <1>8, TypedStays DEF AtGate, AtAsk
<1> QED
  BY <1>20, <1>7, <1>8, <1>9, <1>10 DEF SessionInv

LEMMA AskQuitsKeeps ==
  ASSUME SessionInv, NEW d \in Lines, AskQuits(d)
  PROVE  SessionInv'
<1>1. /\ at[d] = "asking" /\ forsaken' = forsaken \union ({askReply} \ {None})
      /\ at' = [at EXCEPT ![d] = "ask_end"]
      /\ UNCHANGED <<driveCancel, state, saw, aborted, box, canceller, calls, saving, stored,
                     excused, crashes, phase, gatePending, gateReply, askPending, askReply,
                     gates, asks, retried, for, behind, late>>
  BY DEF AskQuits, Goto, parked, bridges, store
<1>2. TypeOK /\ Owner /\ Inbox /\ Typed /\ Answers /\ Saves
  BY DEF SessionInv
<1>3. "asking" \in Live \ {"routing"} /\ "ask_end" \in Live \ {"routing"}
  BY DEF Live, Parked
<1>4. phase = "awaiting_input" /\ askPending /\ ~gatePending
  BY <1>1, <1>2, <1>3, OwnerIs DEF PhaseOf
<1>5. phase' = PhaseOf("ask_end")
  BY <1>1, <1>4 DEF PhaseOf
<1>6. /\ at' \in [Lines -> Places] /\ at'[d] = "ask_end"
      /\ \A x \in Lines : x # d => at'[x] = at[x]
      /\ driveCancel = d /\ Standing = at[d] /\ Owner' /\ Standing' = "ask_end"
      /\ phase \notin {"idle", "routing"} /\ phase' \in Phases \ {"idle", "routing"}
  BY <1>1, <1>2, <1>3, <1>4, <1>5, DriveMoves
<1>7. TypeOK'
  BY <1>1, <1>2, <1>6 DEF TypeOK
<1>8. Inbox' /\ Saves'
  BY <1>1, <1>2, <1>3, <1>6, MovesApart
<1>9. Answers'
  <2>1. gateReply # None => at'[gateReply] = "answer" /\ gateReply \in Unheard'
    BY <1>1, <1>2, <1>6 DEF Answers, TypeOK, Unheard
  <2>2. askReply # None => at'[askReply] = "answer" /\ askReply \in Unheard'
    BY <1>1, <1>2, <1>6 DEF Answers, TypeOK, Unheard
  <2>3. \A l \in Lines : at'[l] = "answer" => l \in Unheard' \/ l = gateReply \/ l = askReply
    BY <1>1, <1>2, <1>6 DEF Answers, Unheard
  <2> QED
    BY <1>1, <1>2, <1>6, <2>1, <2>2, <2>3 DEF Answers
<1>20. Typed'
  BY <1>1, <1>2, <1>6, TypedStays DEF AtGate, AtAsk
<1> QED
  BY <1>20, <1>6, <1>7, <1>8, <1>9 DEF SessionInv

LEMMA AskEndsKeeps ==
  ASSUME SessionInv, NEW d \in Lines, AskEnds(d)
  PROVE  SessionInv'
<1>1. /\ at[d] = "ask_end" /\ askPending' = FALSE /\ askReply' = None /\ retried' = FALSE
      /\ at' = [at EXCEPT ![d] = "ask_leave"]
      /\ UNCHANGED <<driveCancel, state, saw, aborted, box, canceller, calls, saving, stored,
                     excused, crashes, phase, gatePending, gateReply, gates, asks,
                     for, behind, late, forsaken>>
  BY DEF AskEnds, Goto, parked, store, history
<1>2. TypeOK /\ Owner /\ Inbox /\ Typed /\ Answers /\ Saves
  BY DEF SessionInv
<1>3. "ask_end" \in Live \ {"routing"} /\ "ask_leave" \in Live \ {"routing"}
  BY DEF Live, Parked
<1>4. phase = "awaiting_input" /\ ~gatePending
  BY <1>1, <1>2, <1>3, OwnerIs DEF PhaseOf
<1>5. phase' = PhaseOf("ask_leave")
  BY <1>1, <1>4 DEF PhaseOf
<1>6. /\ at' \in [Lines -> Places] /\ at'[d] = "ask_leave"
      /\ \A x \in Lines : x # d => at'[x] = at[x]
      /\ driveCancel = d /\ Standing = at[d] /\ Owner' /\ Standing' = "ask_leave"
      /\ phase \notin {"idle", "routing"} /\ phase' \in Phases \ {"idle", "routing"}
  BY <1>1, <1>2, <1>3, <1>4, <1>5, DriveMoves
<1>7. TypeOK'
  BY <1>1, <1>2, <1>6 DEF TypeOK
<1>8. Inbox' /\ Saves'
  BY <1>1, <1>2, <1>3, <1>6, MovesApart
<1>9. Answers'
  BY <1>1, <1>2, <1>6, AskClears
<1>20. Typed'
  BY <1>1, <1>2, <1>6, TypedStays DEF AtGate, AtAsk
<1> QED
  BY <1>20, <1>6, <1>7, <1>8, <1>9 DEF SessionInv

LEMMA AskLeavesKeeps ==
  ASSUME SessionInv, NEW d \in Lines, AskLeaves(d)
  PROVE  SessionInv'
<1>1. /\ at[d] = "ask_leave" /\ Leave("awaiting_input") /\ at' = [at EXCEPT ![d] = "working"]
      /\ UNCHANGED <<driveCancel, state, saw, aborted, box, canceller, calls, saving, stored,
                     excused, crashes, gatePending, gateReply, askPending, askReply, gates, asks,
                     retried, for, behind, late, forsaken>>
  BY DEF AskLeaves, Goto, parked, bridges, store, history
<1>2. TypeOK /\ Owner /\ Inbox /\ Typed /\ Answers /\ Saves
  BY DEF SessionInv
<1>3. "ask_leave" \in Live \ {"routing"} /\ "working" \in Live \ {"routing"}
  BY DEF Live, Parked
<1>4. phase = "awaiting_input" /\ ~gatePending /\ ~askPending
  BY <1>1, <1>2, <1>3, OwnerIs DEF PhaseOf
<1>5. phase' = PhaseOf("working")
  BY <1>1, <1>4 DEF Leave, PhaseOf
<1>6. /\ at' \in [Lines -> Places] /\ at'[d] = "working"
      /\ \A x \in Lines : x # d => at'[x] = at[x]
      /\ driveCancel = d /\ Standing = at[d] /\ Owner' /\ Standing' = "working"
      /\ phase \notin {"idle", "routing"} /\ phase' \in Phases \ {"idle", "routing"}
  BY <1>1, <1>2, <1>3, <1>4, <1>5, DriveMoves
<1>7. TypeOK'
  BY <1>1, <1>2, <1>6 DEF TypeOK
<1>8. Inbox' /\ Saves'
  BY <1>1, <1>2, <1>3, <1>6, MovesApart
<1>9. Answers'
  BY <1>1, <1>2, <1>6, AnswersStay
<1>20. Typed'
  BY <1>1, <1>2, <1>6, TypedStays DEF AtGate, AtAsk
<1> QED
  BY <1>20, <1>6, <1>7, <1>8, <1>9 DEF SessionInv

-----------------------------------------------------------------------------
(* The other calls of a front door, and the end of the process.             *)

LEMMA CancelStepsKeep ==
  ASSUME SessionInv, CancelFinds \/ CancelFires \/ CancelReturns \/ UNCHANGED vars
  PROVE  SessionInv'
<1>1. UNCHANGED <<phase, driveCancel, state, at, saw, box, gatePending, gateReply, askPending,
                  askReply, gates, asks, retried, saving, stored, excused, crashes,
                  for, behind, late, forsaken>>
  BY DEF CancelFinds, CancelFires, CancelReturns, vars, session, bridges, store, history
<1>2. TypeOK /\ Owner /\ Inbox /\ Typed /\ Answers /\ Saves
  BY DEF SessionInv
<1>3. /\ canceller' \in [drive : Lines \union {None}, doing : {"no", "fire", "wait"}]
      /\ calls' \in 0 .. MaxCalls /\ aborted' \subseteq Lines
  <2>1. calls' \in {calls, calls + 1} /\ (calls' # calls => calls < MaxCalls)
    BY DEF CancelFinds, CancelFires, CancelReturns, Called, vars
  <2>2. calls' \in 0 .. MaxCalls
    BY <1>2, <2>1, SessionAssumption DEF TypeOK
  <2>3. aborted' \subseteq Lines
    BY <1>2 DEF TypeOK, CancelFinds, CancelFires, CancelReturns, vars, Target, Drives
  <2>4. canceller' \in [drive : Lines \union {None}, doing : {"no", "fire", "wait"}]
    <3>1. canceller \in [drive : Lines \union {None}, doing : {"no", "fire", "wait"}]
      BY <1>2 DEF TypeOK
    <3>2. CASE CancelFinds
      BY <1>2, <3>2 DEF TypeOK, CancelFinds
    <3>3. CASE CancelFires
      BY <3>1, <3>3 DEF CancelFires
    <3>4. CASE CancelReturns
      BY <3>4 DEF CancelReturns, Idle
    <3> QED
      BY <3>1, <3>2, <3>3, <3>4 DEF vars
  <2> QED
    BY <2>2, <2>3, <2>4
<1>4. TypeOK'
  BY <1>1, <1>2, <1>3 DEF TypeOK
<1>5. Owner' /\ Standing' = Standing
  BY <1>1, <1>2, OwnerStays
<1>6. Inbox' /\ Answers' /\ Saves'
  BY <1>1, <1>2, <1>5, InboxStays, AnswersStay, SavesStay
<1>20. Typed'
  BY <1>1, <1>2, <1>5, TypedStays
<1> QED
  BY <1>20, <1>4, <1>5, <1>6 DEF SessionInv

\* A mode or a clear, in memory only.
LEMMA MemoryKeeps ==
  ASSUME SessionInv, Clear \/ \E m \in Modes : SetMode(m)
  PROVE  SessionInv'
<1>1. /\ Called /\ excused' = TRUE
      /\ \/ state' = [state EXCEPT !.branch = None]
         \/ \E m \in Modes : state' = [state EXCEPT !.mode = m]
      /\ UNCHANGED <<phase, driveCancel, at, saw, aborted, box, gatePending, gateReply,
                     askPending, askReply, gates, asks, retried, canceller, saving, stored,
                     crashes, for, behind, late, forsaken>>
  BY DEF Clear, SetMode, bridges, history
<1>2. TypeOK /\ Owner /\ Inbox /\ Typed /\ Answers /\ Saves
  BY DEF SessionInv
<1>3. state' \in States
  BY <1>1, <1>2 DEF TypeOK, States
<1>4. calls' \in 0 .. MaxCalls
  <2>1. calls < MaxCalls /\ calls' = calls + 1
    BY <1>1 DEF Called
  <2>2. calls \in 0 .. MaxCalls /\ MaxCalls \in Nat
    BY <1>2, SessionAssumption DEF TypeOK
  <2> QED
    BY <2>1, <2>2
<1>5. TypeOK'
  BY <1>1, <1>2, <1>3, <1>4 DEF TypeOK
<1>6. Owner' /\ Standing' = Standing
  BY <1>1, <1>2, OwnerStays
<1>7. Inbox' /\ Answers'
  BY <1>1, <1>2, <1>6, InboxStays, AnswersStay
<1>8. Saves'
  BY <1>1, <1>2 DEF Saves
<1>20. Typed'
  BY <1>1, <1>2, <1>6, TypedStays
<1> QED
  BY <1>20, <1>5, <1>6, <1>7, <1>8 DEF SessionInv

\* A snapshot from the front door.
LEMMA DoorSavesKeep ==
  ASSUME SessionInv, ClearKeptBranch \/ Checkpoint
  PROVE  SessionInv'
<1>1. /\ Called /\ Save(Door, state')
      /\ state' \in {state, [state EXCEPT !.branch = None]}
      /\ UNCHANGED <<phase, driveCancel, at, saw, aborted, box, gatePending, gateReply,
                     askPending, askReply, gates, asks, retried, canceller, crashes,
                     for, behind, late, forsaken>>
  BY DEF ClearKeptBranch, Checkpoint, session, bridges, history
<1>2. TypeOK /\ Owner /\ Inbox /\ Typed /\ Answers /\ Saves
  BY DEF SessionInv
<1>3. state' \in States
  BY <1>1, <1>2 DEF TypeOK, States
<1>4. calls' \in 0 .. MaxCalls
  <2>1. calls < MaxCalls /\ calls' = calls + 1
    BY <1>1 DEF Called
  <2>2. calls \in 0 .. MaxCalls /\ MaxCalls \in Nat
    BY <1>2, SessionAssumption DEF TypeOK
  <2> QED
    BY <2>1, <2>2
<1>5. /\ Saves' /\ saving' \in [Lines \union {Door} -> States \union {None}]
      /\ excused' \in BOOLEAN /\ stored' = stored
  BY <1>1, <1>2, <1>3, SaveSays, SessionAssumption DEF Saves
<1>6. TypeOK'
  BY <1>1, <1>2, <1>3, <1>4, <1>5 DEF TypeOK
<1>7. Owner' /\ Standing' = Standing
  BY <1>1, <1>2, OwnerStays
<1>8. Inbox' /\ Answers'
  BY <1>1, <1>2, <1>7, InboxStays, AnswersStay
<1>20. Typed'
  BY <1>1, <1>2, <1>7, TypedStays
<1> QED
  BY <1>20, <1>5, <1>6, <1>7, <1>8 DEF SessionInv

LEMMA RestartKeeps ==
  ASSUME SessionInv, Restart
  PROVE  SessionInv'
<1>1. /\ crashes < MaxCrashes /\ crashes' = crashes + 1 /\ calls' = calls /\ stored' = stored
      /\ phase' = "idle" /\ driveCancel' = None /\ state' = stored /\ box' = <<>>
      /\ gatePending' = FALSE /\ gateReply' = None
      /\ askPending' = FALSE /\ askReply' = None /\ retried' = FALSE
      /\ at' = [l \in Lines |-> IF at[l] = "new" THEN "new" ELSE "over"]
      /\ saw' = [l \in Lines |-> "idle"] /\ for' = [l \in Lines |-> <<>>]
      /\ behind' = {} /\ late' = {} /\ forsaken' = {}
      /\ gates' = [l \in Lines |-> 0] /\ asks' = [l \in Lines |-> 0]
      /\ aborted' = {} /\ canceller' = Idle
      /\ saving' = [s \in DOMAIN saving |-> None] /\ excused' = FALSE
  BY DEF Restart, Released
<1>2. TypeOK
  BY DEF SessionInv
<1>3. at' \in [Lines -> Places] /\ \A l \in Lines : at'[l] \in {"new", "over"}
  BY <1>1 DEF Places
<1>4. saving' \in [Lines \union {Door} -> States \union {None}]
      /\ \A s \in Lines \union {Door} : saving'[s] = None
  BY <1>1, <1>2 DEF TypeOK
<1>5. TypeOK'
  <2>1. /\ phase' \in Phases /\ driveCancel' \in Lines \union {None}
        /\ state' \in States /\ stored' \in States
    BY <1>1, <1>2 DEF TypeOK, Phases
  <2>2. saw' \in [Lines -> Phases] /\ aborted' \subseteq Lines /\ box' \in Seq(Lines)
    BY <1>1 DEF Phases
  <2>3. /\ gatePending' \in BOOLEAN /\ gateReply' \in Lines \union {None}
        /\ askPending' \in BOOLEAN /\ askReply' \in Lines \union {None} /\ retried' \in BOOLEAN
        /\ excused' \in BOOLEAN
    BY <1>1
  <2>4. 0 \in 0 .. MaxQuestions /\ crashes' \in 0 .. MaxCrashes /\ calls' \in 0 .. MaxCalls
    BY <1>1, <1>2, SessionAssumption DEF TypeOK
  <2>5. gates' \in [Lines -> 0 .. MaxQuestions] /\ asks' \in [Lines -> 0 .. MaxQuestions]
    BY <1>1, <2>4
  <2>6. /\ canceller' \in [drive : Lines \union {None}, doing : {"no", "fire", "wait"}]
        /\ for' \in [Lines -> Questions]
        /\ behind' \subseteq Lines /\ late' \subseteq Lines /\ forsaken' \subseteq Lines
    BY <1>1 DEF Idle, Questions
  <2> QED
    BY <1>3, <1>4, <2>1, <2>2, <2>3, <2>4, <2>5, <2>6 DEF TypeOK
<1>6. Owner' /\ Standing' = "nowhere"
  BY <1>1, <1>3, NobodyOwns DEF Live, Parked
<1>7. Inbox'
  BY <1>1, <1>3 DEF Inbox
<1>8. Answers'
  BY <1>1, <1>3 DEF Answers
<1>9. Saves'
  BY <1>1, <1>4 DEF Saves
<1>10. Typed'
  BY <1>6 DEF Typed, AtGate, AtAsk
<1> QED
  BY <1>10, <1>5, <1>6, <1>7, <1>8, <1>9 DEF SessionInv

LEMMA StepSession == SessionInv /\ [Next]_vars => SessionInv'
<1> SUFFICES ASSUME SessionInv, [Next]_vars PROVE SessionInv'
  OBVIOUS
<1>1. CASE UNCHANGED vars
  BY <1>1, CancelStepsKeep
<1>2. CASE FrontDoor
  BY <1>2, CancelStepsKeep, MemoryKeeps, DoorSavesKeep, SaveEndsKeeps DEF FrontDoor
<1>3. CASE Restart
  BY <1>3, RestartKeeps
<1>4. ASSUME NEW l \in Lines, Turn(l) PROVE SessionInv'
  BY <1>4, ClaimKeeps, FollowUpKeeps, DeliverKeeps, PushKeeps DEF Turn
<1>5. ASSUME NEW d \in Lines, Drive(d) PROVE SessionInv'
  BY <1>5, RouteFailsKeeps, LaunchKeeps, DrainKeeps, DriveEndsKeeps, SaveEndsKeeps,
     GateOpensKeeps, GateReadsKeeps, GateDeniesKeeps, GateClosesKeeps, AskParksKeeps,
     AskBeginsKeeps, AskReadsKeeps, AskQuitsKeeps, AskEndsKeeps, AskLeavesKeeps DEF Drive
<1> QED
  BY <1>1, <1>2, <1>3, <1>4, <1>5 DEF Next

-----------------------------------------------------------------------------
(* The theorems.                                                            *)

\* Every reachable state of a conversation has its type.
THEOREM SessionTypeCorrect == Spec => []TypeOK
<1>1. SessionInv => TypeOK
  BY DEF SessionInv
<1> QED
  BY InitSession, StepSession, <1>1, PTL DEF Spec

\* One drive at a time owns the conversation, and the phase and both bridges say where it
\* stands, whatever lines, cancels, failures and restarts come in between.
THEOREM OneOwner == Spec => []OneDriveOwnsThePhase
<1>1. ASSUME SessionInv PROVE OneDriveOwnsThePhase
  <2>1. TypeOK /\ Owner
    BY <1>1 DEF SessionInv
  <2>2. ASSUME Running = {} PROVE phase = "idle" /\ driveCancel = None
    <3>1. driveCancel = None
      BY <2>1, <2>2 DEF TypeOK, Owner, Running
    <3> QED
      BY <2>1, <3>1 DEF Owner
  <2>3. ASSUME NEW d \in Running
        PROVE  Running = {d} /\ driveCancel = d /\ phase = PhaseOf(at[d]) /\ Standing = at[d]
    BY <2>1, OwnerIs DEF Running
  <2>4. Standing \in Live => \E d \in Running : at[d] = Standing
    <3>1. "nowhere" \notin Live
      BY DEF Live, Parked
    <3> QED
      BY <2>1, <3>1 DEF TypeOK, Owner, Standing, Running
  <2>5. /\ gatePending <=> Standing \in {"gate", "gate_close"}
        /\ askPending <=> Standing \in {"asking", "ask_end"}
    BY <2>1 DEF Owner
  <2>6. {"gate", "gate_close", "asking", "ask_end"} \subseteq Live
    BY DEF Live, Parked
  <2>7. gatePending <=> \E d \in Running : at[d] \in {"gate", "gate_close"}
    BY <2>3, <2>4, <2>5, <2>6
  <2>8. askPending <=> \E d \in Running : at[d] \in {"asking", "ask_end"}
    BY <2>3, <2>4, <2>5, <2>6
  <2> QED
    BY <2>2, <2>3, <2>7, <2>8 DEF OneDriveOwnsThePhase
<1> QED
  BY InitSession, StepSession, <1>1, PTL DEF Spec

\* A question reads what was typed at it, or a line on its way when it opened, whose Turn
\* had read the phase at an earlier question; never what an earlier question left behind or
\* what was typed at work.  A line accepted by a bridge is read, unless its question was
\* already decided when it was accepted, or was given up before it read it.
THEOREM AnswersStayWithTheirQuestion == Spec => []NoAnswerCrosses
<1>1. ASSUME SessionInv PROVE NoAnswerCrosses
  <2>1. TypeOK /\ Owner /\ Answers
    BY <1>1 DEF SessionInv
  <2>2. ASSUME NEW d \in Lines, at[d] = "gate", gateReply # None
        PROVE  for[gateReply] = <<d, "gate", gates[d]>> \/ gateReply \in behind
    <3>1. driveCancel = d /\ Standing = "gate"
      BY <2>1, <2>2, OwnerIs DEF Live, Parked
    <3> QED
      BY <2>1, <2>2, <3>1 DEF Answers, Gate
  <2>3. ASSUME NEW d \in Lines, at[d] = "asking", askReply # None
        PROVE  for[askReply] = <<d, "ask", asks[d]>> \/ askReply \in behind
    <3>1. driveCancel = d /\ Standing = "asking"
      BY <2>1, <2>3, OwnerIs DEF Live, Parked
    <3> QED
      BY <2>1, <2>3, <3>1 DEF Answers, Asked
  <2>4. \A l \in Lines :
          at[l] = "answer" => l \in {gateReply, askReply} \union late \union forsaken
    BY <2>1 DEF Answers, Unheard
  <2> QED
    BY <2>2, <2>3, <2>4 DEF NoAnswerCrosses
<1> QED
  BY InitSession, StepSession, <1>1, PTL DEF Spec

\* A follow-up is in the inbox, once, until a drive folds it or the process dies.
THEOREM FollowUpsStay == Spec => []FollowUpsAreKept
<1>1. ASSUME SessionInv PROVE FollowUpsAreKept
  <2>1. Inbox
    BY <1>1 DEF SessionInv
  <2>2. ASSUME NEW l \in Lines, at[l] = "queued"
        PROVE  Cardinality({i \in DOMAIN box : box[i] = l}) = 1
    <3>1. PICK i \in DOMAIN box : box[i] = l
      BY <2>1, <2>2 DEF Inbox
    <3>2. {j \in DOMAIN box : box[j] = l} = {i}
      BY <2>1, <3>1 DEF Inbox
    <3> QED
      BY <3>2, FS_Singleton
  <2> QED
    BY <2>2 DEF FollowUpsAreKept
<1> QED
  BY InitSession, StepSession, <1>1, PTL DEF Spec

\* Between drives, with no save on its way, the store holds the state of the conversation.
THEOREM SettledIsSaved == Spec => []SavedWhenSettled
<1>1. ASSUME SessionInv PROVE SavedWhenSettled
  <2>1. Saves /\ DOMAIN saving = Lines \union {Door}
    BY <1>1 DEF SessionInv, TypeOK
  <2> QED
    BY <2>1 DEF Saves, SavedWhenSettled
<1> QED
  BY InitSession, StepSession, <1>1, PTL DEF Spec

=============================================================================
