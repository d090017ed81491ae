------------------------- MODULE TokenLimitsProofs -------------------------
(***************************************************************************)
(* Proofs about TokenLimits, for all sizes of limits and prompts.          *)
(***************************************************************************)
EXTENDS TokenLimits, TLAPS

\* Past parse_profile the limits obey its rules: limit() computes with nothing else.
ProfileChecked == stage \notin {"profile", "invalid"} => ValidLimits(limits)

\* What the gateway counts is what it asks for: the switch that it sends or its own default.
Switched ==
    stage \in {"prepared", "forwarded"} =>
        counted = thinking /\ counted = IF sent = None THEN default ELSE sent

Inv == TypeOK /\ ProfileChecked /\ AnswerFits /\ RoomForAnswer /\ Switched

\* A profile that was not looked at yet promises nothing.
LEMMA InitInv == Init => Inv
<1>1. Init => TypeOK
  <2> SUFFICES ASSUME Init
               PROVE  TypeOK
    OBVIOUS
  <2>1. /\ default \in BOOLEAN /\ served \in BOOLEAN
        /\ thinking \in BOOLEAN /\ counted \in BOOLEAN
    BY Zenon DEF Init
  <2>2. requested \in Sizes \cup {None} /\ sent \in BOOLEAN \cup {None}
    BY Zenon DEF Init
  <2>3. limits \in Limits /\ prompt \in Counts /\ granted \in Int
    BY DEF Init
  <2>4. stage \in {"profile", "invalid", "ready", "prepared", "forwarded", "refused"}
    BY DEF Init
  <2> QED
    BY <2>1, <2>2, <2>3, <2>4, Zenon DEF TypeOK
<1>2. Init => ProfileChecked /\ AnswerFits /\ RoomForAnswer /\ Switched
  BY DEF Init, ProfileChecked, AnswerFits, RoomForAnswer, Switched
<1> QED
  BY <1>1, <1>2 DEF Inv

\* The switch that is sent is one of the values a client can send.
LEMMA SwitchType ==
    ASSUME default \in BOOLEAN, NEW effort
    PROVE  Switch(effort) \in BOOLEAN \cup {None}
  BY DEF Switch

\* parse_profile lets only ordered limits pass.
LEMMA LoadStep == Inv /\ LoadProfile => Inv'
  BY DEF LoadProfile, Inv, TypeOK, ProfileChecked, AnswerFits, RoomForAnswer,
         Switched, ValidLimits

\* Another backend, whatever its default, makes no difference to what was counted and sent.
LEMMA BackendStep == Inv /\ BackendLoads => Inv'
<1> SUFFICES ASSUME Inv, BackendLoads
             PROVE  Inv'
  OBVIOUS
<1>1. TypeOK'
  BY DEF BackendLoads, Inv, TypeOK
<1>2. ProfileChecked' /\ AnswerFits' /\ RoomForAnswer'
  BY DEF BackendLoads, Inv, ProfileChecked, AnswerFits, RoomForAnswer, ValidLimits
<1>3. Switched'
  BY DEF BackendLoads, Inv, Switched
<1> QED
  BY <1>1, <1>2, <1>3 DEF Inv

\* prepare() counts what the effort asks for: without a switch that is the default of the
\* gateway, with one it is the switch.
LEMMA PrepareStep ==
    ASSUME Inv, NEW effort \in Efforts, NEW limit \in Sizes \cup {None}, Prepare(effort, limit)
    PROVE  Inv'
<1>1. TypeOK'
  <2>1. Switch(effort) \in BOOLEAN \cup {None}
    BY SwitchType DEF Inv, TypeOK
  <2>2. sent' \in BOOLEAN \cup {None} /\ counted' \in BOOLEAN
    BY <2>1 DEF Prepare, Inv, TypeOK
  <2>3. thinking' \in BOOLEAN
    BY DEF Prepare, Inv, TypeOK
  <2> QED
    BY <2>2, <2>3 DEF Prepare, Inv, TypeOK
<1>2. ProfileChecked'
  BY DEF Prepare, Inv, ProfileChecked, ValidLimits
<1>3. AnswerFits' /\ RoomForAnswer'
  BY DEF Prepare, AnswerFits, RoomForAnswer
<1>4. Switched'
  <2>1. default \in BOOLEAN
    BY DEF Inv, TypeOK
  <2>2. CASE effort = None
    <3>1. Switch(effort) = None
      BY <2>2, NoneAssumption DEF Switch
    <3> QED
      BY <2>2, <3>1 DEF Prepare, Switched
  <2>3. CASE effort = "none" /\ effort # None
    <3>1. Switch(effort) = IF default THEN FALSE ELSE None
      BY <2>3 DEF Switch
    <3>2. thinking' = FALSE /\ default' = default /\ sent' = Switch(effort)
      BY <2>3 DEF Prepare
    <3>3. counted' = FALSE
      BY <2>1, <3>1, NoneAssumption DEF Prepare
    <3> QED
      BY <2>1, <3>1, <3>2, <3>3, NoneAssumption DEF Switched
  <2>4. CASE effort # "none" /\ effort # None
    <3>1. sent' = TRUE /\ counted' = TRUE /\ thinking' = TRUE
      BY <2>4, NoneAssumption DEF Prepare, Switch
    <3> QED
      BY <3>1, NoneAssumption DEF Switched
  <2> QED
    BY <2>2, <2>3, <2>4
<1> QED
  BY <1>1, <1>2, <1>3, <1>4 DEF Inv

\* limit() refuses a prompt that is too long, and grants nothing.
LEMMA RefuseStep == Inv /\ Refuse => Inv'
  BY DEF Refuse, Inv, TypeOK, ProfileChecked, AnswerFits, RoomForAnswer, Switched,
         ValidLimits

\* What limit() grants is at least one token, at least the minimum unless the
\* client asked for less, and fits the context beside the prompt.
LEMMA ForwardStep == Inv /\ Forward => Inv'
<1> SUFFICES ASSUME Inv, Forward
             PROVE  Inv'
  OBVIOUS
<1>1. /\ limits.max_context \in Nat \ {0}
      /\ limits.max_output_tokens \in Nat \ {0}
      /\ limits.min_output_tokens \in Nat \ {0}
      /\ prompt \in Nat
      /\ requested = None \/ requested \in Nat \ {0}
  BY SizesAssumption DEF Inv, TypeOK, Limits
<1>2. ValidLimits(limits)
  BY DEF Inv, ProfileChecked, Forward
<1>3. /\ prompt <= limits.max_context - limits.min_output_tokens
      /\ granted' = IF requested = None \/ Allowed <= requested THEN Allowed ELSE requested
  BY <1>1 DEF Forward, TooLong
<1>4. /\ Allowed \in Int
      /\ Allowed >= limits.min_output_tokens
      /\ prompt + Allowed <= limits.max_context
  BY <1>1, <1>2, <1>3 DEF Allowed, ValidLimits
<1>5. /\ granted' \in Int
      /\ granted' >= 1
      /\ prompt + granted' <= limits.max_context
  BY <1>1, <1>3, <1>4
<1>6. requested = None \/ requested >= limits.min_output_tokens =>
          granted' >= limits.min_output_tokens
  BY <1>1, <1>3, <1>4
<1>7. TypeOK'
  BY <1>5 DEF Forward, Inv, TypeOK
<1>8. AnswerFits' /\ RoomForAnswer'
  BY <1>5, <1>6 DEF Forward, AnswerFits, RoomForAnswer
<1>9. ProfileChecked' /\ Switched'
  BY <1>2 DEF Forward, Inv, ProfileChecked, Switched, ValidLimits
<1> QED
  BY <1>7, <1>8, <1>9 DEF Inv

\* Every step, and every stutter, keeps the invariant.
LEMMA InvNext == Inv /\ [Next]_vars => Inv'
<1> SUFFICES ASSUME Inv, [Next]_vars
             PROVE  Inv'
  OBVIOUS
<1>1. CASE UNCHANGED vars
  BY <1>1 DEF vars, Inv, TypeOK, ProfileChecked, AnswerFits, RoomForAnswer, Switched,
              ValidLimits
<1>2. CASE Next
  BY <1>2, LoadStep, BackendStep, PrepareStep, RefuseStep, ForwardStep DEF Next
<1> QED
  BY <1>1, <1>2

\* The invariant holds throughout every request.
LEMMA Invariance == Spec => []Inv
  BY InitInv, InvNext, PTL DEF Spec

\* Whatever the limits of a profile that parse_profile accepts (config.py:271-294)
\* and however long the prompt, an answer limit() forwards (translate.py:327-340)
\* has at least one token and fits the context.
THEOREM AnswersFit == Spec => []AnswerFits
<1>1. Inv => AnswerFits
  BY DEF Inv
<1> QED
  BY <1>1, Invariance, PTL

\* The room min_output_tokens keeps for the answer (translate.py:333) is there for
\* every client that does not ask for less.
THEOREM RoomKept == Spec => []RoomForAnswer
<1>1. Inv => RoomForAnswer
  BY DEF Inv
<1> QED
  BY <1>1, Invariance, PTL

\* Whatever the effort and the defaults of the two processes, the gateway counts the
\* rendering it samples for, and the backend renders that one exactly if it was sent the
\* switch or has the gateway's default (translate.py:209-223, server.py:47, settings.py:41).
THEOREM RenderedAsCounted == Spec => []RendersAsCounted
<1>1. Inv => RendersAsCounted
  <2> SUFFICES ASSUME Inv, stage \in {"prepared", "forwarded"}
               PROVE  LET rendered == IF sent = None THEN served ELSE sent
                      IN  /\ counted = thinking
                          /\ rendered = counted <=> sent # None \/ served = default
    BY DEF RendersAsCounted
  <2>1. counted = thinking /\ counted = IF sent = None THEN default ELSE sent
    BY DEF Inv, Switched
  <2>2. CASE sent = None
    BY <2>1, <2>2
  <2>3. CASE sent # None
    BY <2>1, <2>3
  <2> QED
    BY <2>2, <2>3
<1> QED
  BY <1>1, Invariance, PTL

=============================================================================
