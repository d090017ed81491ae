---------------------------- MODULE TokenLimits ----------------------------
(***************************************************************************)
(* How long an answer may be, and whether it is thought about: the limits  *)
(* of a profile (config.py), and what the gateway makes of a request's     *)
(* max_tokens and reasoning_effort (gateway/translate.py).  The backend    *)
(* renders the chat template itself, with its own defaults overlaid by the *)
(* arguments it is sent; the gateway has to count the same rendering.  It  *)
(* goes by its own copy of the default: the two processes load the profile *)
(* each for itself, at different times.                                    *)
(*                                                                         *)
(* LimitsUnordered, AllowedUncapped and SwitchForgotten are slips that     *)
(* nothing uses: they stand in for the definition below them to show that  *)
(* a property would notice.                                                *)
(***************************************************************************)
EXTENDS Integers

CONSTANTS
    Sizes,    \* the values a profile may give its limits
    Counts,   \* how many tokens a prompt can have
    None      \* not given, not sent

ASSUME SizesAssumption == Sizes \subseteq Nat \ {0} /\ Counts \subseteq Nat /\ None \notin Nat
ASSUME NoneAssumption == None \notin BOOLEAN /\ None \notin {"none", "low", "medium", "high"}

\* "none" stands for "minimal" too, "high" for "xhigh".
Efforts == {None, "none", "low", "medium", "high"}

Limits == [max_context : Sizes, max_output_tokens : Sizes, min_output_tokens : Sizes]

VARIABLES
    stage,      \* "profile", "invalid", "ready", "prepared", "forwarded" or "refused"
    limits,     \* the profile's limits
    default,    \* enable_thinking of the profile the gateway has loaded
    served,     \* enable_thinking of the profile the backend has loaded
    prompt,     \* the tokens counted in the request
    requested,  \* its max_completion_tokens or max_tokens, or None
    thinking,   \* whether it is to be thought about, for the sampling defaults
    sent,       \* enable_thinking in the arguments sent to the backend, or None
    counted,    \* enable_thinking as the gateway counts the prompt
    granted     \* max_tokens for the backend

vars == <<stage, limits, default, served, prompt, requested, thinking, sent, counted, granted>>

TypeOK ==
    /\ stage \in {"profile", "invalid", "ready", "prepared", "forwarded", "refused"}
    /\ limits \in Limits
    /\ default \in BOOLEAN
    /\ served \in BOOLEAN
    /\ prompt \in Counts
    /\ requested \in Sizes \cup {None}
    /\ thinking \in BOOLEAN
    /\ sent \in BOOLEAN \cup {None}
    /\ counted \in BOOLEAN
    /\ granted \in Int

Init ==
    /\ stage = "profile"
    /\ limits \in Limits
    /\ default \in BOOLEAN
    /\ served \in BOOLEAN
    /\ prompt \in Counts
    /\ requested = None
    /\ thinking = FALSE
    /\ sent = None
    /\ counted = FALSE
    /\ granted = 0

---------------------------------------------------------------------------

LimitsUnordered(l) ==
    /\ l.min_output_tokens < l.max_context
    /\ l.max_output_tokens <= l.max_context

\* parse_profile: the rules between the fields.
ValidLimits(l) ==
    /\ l.min_output_tokens < l.max_context
    /\ l.min_output_tokens <= l.max_output_tokens
    /\ l.max_output_tokens <= l.max_context

LoadProfile ==
    /\ stage = "profile"
    /\ stage' = IF ValidLimits(limits) THEN "ready" ELSE "invalid"
    /\ UNCHANGED <<limits, default, served, prompt, requested, thinking, sent, counted, granted>>

\* A backend is started, with another profile than the gateway's or with its profile as it
\* is by now; a gateway that is up stays as it is.
BackendLoads ==
    /\ served' \in BOOLEAN
    /\ UNCHANGED <<stage, limits, default, prompt, requested, thinking, sent, counted, granted>>

SwitchForgotten(effort) == IF effort \in {None, "none"} THEN None ELSE TRUE

\* _effort: the switch that turns thinking off is sent only if the gateway's default is on.
Switch(effort) ==
    CASE effort = None -> None
      [] effort = "none" -> IF default THEN FALSE ELSE None
      [] OTHER -> TRUE

\* prepare(), with the request's effort and limit.
Prepare(effort, limit) ==
    /\ stage = "ready"
    /\ stage' = "prepared"
    /\ requested' = limit
    /\ thinking' = IF effort = None THEN default ELSE effort # "none"
    /\ sent' = Switch(effort)
    /\ counted' = IF Switch(effort) = None THEN default ELSE Switch(effort)
    /\ UNCHANGED <<limits, default, served, prompt, granted>>

AllowedUncapped == limits.max_output_tokens

Allowed ==
    IF limits.max_output_tokens <= limits.max_context - prompt
    THEN limits.max_output_tokens
    ELSE limits.max_context - prompt

TooLong == prompt > limits.max_context - limits.min_output_tokens

\* limit(): the prompt leaves too little room ...
Refuse ==
    /\ stage = "prepared" /\ TooLong
    /\ stage' = "refused"
    /\ UNCHANGED <<limits, default, served, prompt, requested, thinking, sent, counted, granted>>

\* ... or the request is forwarded with what it may use.
Forward ==
    /\ stage = "prepared" /\ ~TooLong
    /\ stage' = "forwarded"
    /\ granted' = IF requested = None \/ Allowed <= requested THEN Allowed ELSE requested
    /\ UNCHANGED <<limits, default, served, prompt, requested, thinking, sent, counted>>

Next ==
    \/ LoadProfile
    \/ BackendLoads
    \/ \E effort \in Efforts, limit \in Sizes \cup {None} : Prepare(effort, limit)
    \/ Refuse
    \/ Forward

Spec == Init /\ [][Next]_vars

---------------------------------------------------------------------------

\* Prompt and answer fit the context, and there is an answer at all
\* (translate.py:327-340 on a profile that config.py:271-294 let pass).
AnswerFits == stage = "forwarded" => granted >= 1 /\ prompt + granted <= limits.max_context

\* "of which min_output_tokens are kept for the answer" (translate.py:333): a client
\* that does not ask for less gets at least that much.
RoomForAnswer ==
    stage = "forwarded" /\ (requested = None \/ requested >= limits.min_output_tokens) =>
        granted >= limits.min_output_tokens

\* The request is sampled for the rendering that the gateway counted, and the backend
\* renders that one exactly if it is told to or has the same default.  So a request for low,
\* medium or high is always counted right, one for none if the gateway's default is on, and
\* the others as long as the two profiles agree (translate.py:209-223, 301-318).
RendersAsCounted ==
    stage \in {"prepared", "forwarded"} =>
        LET rendered == IF sent = None THEN served ELSE sent
        IN  /\ counted = thinking
            /\ rendered = counted <=> sent # None \/ served = default

===========================================================================
