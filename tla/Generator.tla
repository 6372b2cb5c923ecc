------------------------------ MODULE Generator ------------------------------
(* The password generator of the entry form. Every change of its controls,   *)
(* and every change of the address the form has meanwhile, asks for a        *)
(* password; answers overtake each other, and the panel is closed and opened *)
(* again.                                                                    *)
(*                                                                           *)
(* The options are a model value: what a password was made with.             *)
EXTENDS Integers, FiniteSets

CONSTANTS Options,    \* what the controls can be set to
          Sites,      \* addresses that a rule is known for
          MaxMakes    \* requests under way at a time

Plain == "plain"   \* 20 characters of every kind; Options has it too
NoSite == "none"
NoPassword == "none"
NoPanel == [open |-> FALSE, ready |-> FALSE, options |-> Plain, url |-> NoSite,
            password |-> NoPassword, error |-> FALSE]

VARIABLES site,    \* the form's address
          panel,   \* the generator: [open, ready, options, url, password, error]; a password
                   \* is known by the options it was made with
          makes,   \* generate under way: [here, latest, options, stage]; here: the panel that
                   \* asked is still open; latest: its number is still generation.current
          chosen   \* the password put into the form, and the options shown then

makerVars == <<site, panel, makes, chosen>>

\* DOMAIN_RULES: a known address has options of its own
DomainRule(s) == CHOOSE o \in Options : o # Plain
GetPreset(s) == IF s \in Sites THEN DomainRule(s) ELSE Plain

-----------------------------------------------------------------------------
(* The panel.                                                                *)

\* generate, with the options the controls show after the step; without a
\* backend yet it does nothing
Generate(p) ==
  IF ~p.ready THEN panel' = p /\ UNCHANGED makes
  ELSE /\ panel' = [p EXCEPT !.password = NoPassword, !.error = FALSE]
       /\ Cardinality(makes) < MaxMakes
       /\ makes' = {[m EXCEPT !.latest = FALSE] : m \in makes}
                     \cup {[here |-> TRUE, latest |-> TRUE, options |-> p.options, stage |-> "asked"]}

\* the panel goes: its number moves on
Leave == panel' = NoPanel /\ makes' = {[m EXCEPT !.here = FALSE, !.latest = FALSE] : m \in makes}

\* the options follow the address when it changes; mode goes back to Random
AppliedUrl(p) == IF p.url = site' THEN p ELSE [p EXCEPT !.url = site', !.options = GetPreset(site')]

OpenGenerator ==
  /\ ~panel.open /\ UNCHANGED <<site, chosen>>
  /\ Generate(AppliedUrl([NoPanel EXCEPT !.open = TRUE]))

\* getBackend answered: generate is a new callback, its effect runs again
BackendReady ==
  /\ panel.open /\ ~panel.ready /\ UNCHANGED <<site, chosen>>
  /\ Generate([panel EXCEPT !.ready = TRUE])

SetControls(o) ==
  /\ panel.open /\ o # panel.options /\ UNCHANGED <<site, chosen>>
  /\ Generate([panel EXCEPT !.options = o])
SetMode(o) == SetControls(o)        \* random characters or words
SetLength(o) == SetControls(o)      \* and the number of words
SetToggles(o) == SetControls(o)     \* kinds of characters, capitals, a number
SetSeparator(o) == SetControls(o)

Regenerate == panel.open /\ UNCHANGED <<site, chosen>> /\ Generate(panel)

\* the address field of the form; a changed rule changes the options, and only
\* changed options make another password
TypeSite(s) ==
  /\ s # site /\ site' = s /\ UNCHANGED chosen
  /\ LET p == AppliedUrl(panel)
     IN  IF ~panel.open THEN UNCHANGED <<panel, makes>>
         ELSE IF p.options = panel.options THEN panel' = p /\ UNCHANGED makes
         ELSE Generate(p)

HandleSelect ==
  /\ panel.open /\ panel.password # NoPassword
  /\ chosen' = [password |-> panel.password, shown |-> panel.options] /\ Leave
  /\ UNCHANGED site
CloseGenerator ==
  /\ panel.open /\ Leave /\ UNCHANGED <<site, chosen>>

-----------------------------------------------------------------------------
(* The host, and the answers.                                                *)

Becomes(m, k) == makes' = (makes \ {m}) \cup {k}

\* generate_password; it refuses options that leave no characters
GeneratePassword(m) ==
  /\ m.stage = "asked" /\ \E stage \in {"made", "failed"} : Becomes(m, [m EXCEPT !.stage = stage])
  /\ UNCHANGED <<site, panel, chosen>>
AnalyzePasswordStrength(m) ==
  /\ m.stage = "made" /\ \E stage \in {"scored", "failed"} : Becomes(m, [m EXCEPT !.stage = stage])
  /\ UNCHANGED <<site, panel, chosen>>

LatestRequest(m) == m.here /\ m.latest

Generated(m) ==
  /\ m.stage \in {"scored", "failed"} /\ makes' = makes \ {m} /\ UNCHANGED <<site, chosen>>
  /\ panel' = IF ~LatestRequest(m) THEN panel
              ELSE IF m.stage = "failed" THEN [panel EXCEPT !.error = TRUE]
              ELSE [panel EXCEPT !.password = m.options]

MakerInit ==
  /\ site \in Sites \cup {NoSite} /\ panel = NoPanel /\ makes = {}
  /\ chosen = [password |-> NoPassword, shown |-> Plain]

MakerNext ==
  \/ OpenGenerator \/ BackendReady \/ Regenerate \/ HandleSelect \/ CloseGenerator
  \/ \E o \in Options : SetMode(o) \/ SetLength(o) \/ SetToggles(o) \/ SetSeparator(o)
  \/ \E s \in Sites \cup {NoSite} : TypeSite(s)
  \/ \E m \in makes : GeneratePassword(m) \/ AnalyzePasswordStrength(m) \/ Generated(m)

MakerSpec == MakerInit /\ [][MakerNext]_makerVars

-----------------------------------------------------------------------------
(* Properties.                                                               *)

\* The password shown, and the one put into the form, was made with the options
\* the controls show: never with those of a request that was overtaken, of an
\* earlier address or of an earlier panel. And a panel whose requests have all
\* been answered shows a password or an error.
GeneratedAsAsked ==
  /\ panel.password \in {NoPassword, panel.options}
  /\ chosen.password \in {NoPassword, chosen.shown}
  /\ panel.open /\ panel.ready /\ makes = {} => panel.error \/ panel.password # NoPassword

-----------------------------------------------------------------------------
(* What every step keeps, for the proofs: the request that counts was made   *)
(* with the options on the screen, and a panel without one has its answer.   *)

MakerTypes ==
  /\ panel \in [open : BOOLEAN, ready : BOOLEAN, options : Options, url : {panel.url},
                 password : {panel.password}, error : BOOLEAN]
  /\ \A m \in makes : m \in [here : BOOLEAN, latest : BOOLEAN, options : Options, stage : {m.stage}]

MakerInv ==
  /\ MakerTypes /\ GeneratedAsAsked
  /\ ~panel.ready => panel.password = NoPassword
  /\ \A m \in makes : LatestRequest(m) => panel.open /\ panel.ready /\ m.options = panel.options
  /\ panel.open /\ panel.ready =>
       panel.error \/ panel.password # NoPassword \/ \E m \in makes : LatestRequest(m)

=============================================================================
