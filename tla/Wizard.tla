------------------------------- MODULE Wizard -------------------------------
(***************************************************************************)
(* `onboard` (cli/commands.py, cli/onboard.py, cli/onboard_steps/): the    *)
(* interactive setup walks a list of steps over one context.  A step       *)
(* continues, is skipped, goes back, jumps or aborts; the walker keeps the *)
(* steps to go back to.  The draft is written at the summary step and,     *)
(* unless the gateway has replaced the process, by the command afterwards. *)
(*                                                                         *)
(* A configuration is whose settings it began as and whether it was edited.*)
(* Every prompt may be cancelled; the runs without prompts are left out.   *)
(***************************************************************************)
EXTENDS Naturals, SequencesExt

CONSTANTS WizAgents,    \* agents that may have a directory of their own
          FirstAgent,   \* the agent that is active when the command starts
          WizProviders  \* providers of the registry, by what they ask for

ASSUME WizardAssumption == /\ FirstAgent \in WizAgents
                           /\ WizProviders \subseteq {"oauth", "both", "key"}

VARIABLES place,    \* current step, or "over"
          walked,   \* steps `back` returns to
          ctx,      \* _WizardContext: agent (many: there are directories for several), flow,
                    \* auth, method, useExisting, resetPending, draft
          configs,  \* agent -> its config.json
          renamed,  \* config.json.bak.* files
          ending,   \* how the wizard ended
          before,   \* history: the files when the command started
          authRuns, \* history: [provider, method] of the credentials asked for
          confirmed \* history: agents whose settings the user agreed to write

wizardVars == <<place, walked, ctx, configs, renamed, ending, before, authRuns, confirmed>>
filesVars  == <<configs, renamed, before, authRuns, confirmed>>

Steps == <<"banner", "intro", "agent_id", "security", "existing", "flow", "qs_summary", "provider",
           "method", "run_auth", "default_model", "presets", "workspace", "channels", "search",
           "summary", "health", "outro", "start_gateway", "end">>
StepAfter(s) == Steps[(CHOOSE i \in 1 .. Len(Steps) : Steps[i] = s) + 1]

Absent    == [of |-> "nobody", edited |-> FALSE]
Defaults  == [of |-> "defaults", edited |-> FALSE]
Own(a)    == [of |-> a, edited |-> FALSE]
Edited(c) == [c EXCEPT !.edited = TRUE]

\* _build_provider_options: the registry's, and none.
ProviderOptions == WizProviders \cup {"skip"}

\* auth_methods of a provider; without any, its key is asked for.
MethodsOf(p) == CASE p = "oauth" -> <<"browser-login">>
                  [] p = "both"  -> <<"browser-login", "api-key">>
                  [] OTHER       -> << >>

\* _run_linear_wizard begins with the first step.
WalkBegins == place = "banner" /\ walked = << >> /\ ending = "none"

\* _WizardContext of a run without options.
NewContext(many, draft) ==
  [agent |-> FirstAgent, many |-> many, flow |-> "manual", auth |-> "none", method |-> "none",
   useExisting |-> FALSE, resetPending |-> FALSE, draft |-> draft]

\* get_config_path: the file of the agent that is active at the start.
ActiveConfig == configs[FirstAgent]

\* The draft starts as the configuration that is active, or as the defaults.
WizardInit ==
  /\ WalkBegins /\ renamed = {} /\ authRuns = {} /\ confirmed = {}
  /\ configs \in {f \in [WizAgents -> {Absent} \cup {Own(a) : a \in WizAgents}] :
                    \A a \in WizAgents : f[a] \in {Absent, Own(a)}}
  /\ before = configs
  /\ \E many \in BOOLEAN :
     ctx = NewContext(many, IF ActiveConfig = Absent THEN Defaults ELSE ActiveConfig)
-----------------------------------------------------------------------------
(* The walker. *)

OnStep(s) == place = s /\ ending = "none"

Recorded(s) == TRUE

Continue == /\ walked' = IF Recorded(place) THEN Append(walked, place) ELSE walked
            /\ place' = StepAfter(place) /\ UNCHANGED ending
Skip     == place' = StepAfter(place) /\ UNCHANGED <<walked, ending>>
Back     == /\ IF walked = << >> THEN UNCHANGED <<place, walked>>
               ELSE place' = Last(walked) /\ walked' = Front(walked)
            /\ UNCHANGED ending
Jump(s)  == walked' = Append(walked, place) /\ place' = s /\ UNCHANGED ending
Abort    == ending' = "aborted" /\ UNCHANGED <<place, walked>>

Asks == {"agent_id", "security", "existing", "flow", "provider", "method", "run_auth", "default_model",
         "presets", "workspace", "channels", "search", "summary", "start_gateway"}

\* A prompt is cancelled, or the step raises.
Cancel == /\ ending = "none" /\ place \in Asks /\ Abort /\ UNCHANGED <<ctx, filesVars>>
-----------------------------------------------------------------------------
(* Whose configuration, and what to do with it. *)

Show == /\ \E s \in {"banner", "intro", "outro"} : OnStep(s)
        /\ Continue /\ UNCHANGED <<ctx, filesVars>>

\* Only where agents have directories is there something to choose.
KeepAgent == /\ OnStep("agent_id") /\ ~ctx.many /\ Skip /\ UNCHANGED <<ctx, filesVars>>

PickAgent(a) == /\ OnStep("agent_id") /\ ctx.many
                /\ ctx' = [ctx EXCEPT !.agent = a] /\ Continue /\ UNCHANGED filesVars

\* A new agent begins with an empty file; an existing directory is left as it is.
CreateAgent(a) ==
  /\ OnStep("agent_id") /\ ctx.many /\ configs[a] = Absent
  /\ configs' = [configs EXCEPT ![a] = Defaults]
  /\ ctx' = [ctx EXCEPT !.agent = a] /\ Continue
  /\ UNCHANGED <<renamed, before, authRuns, confirmed>>

WrongAgent == /\ OnStep("agent_id") /\ ctx.many /\ Back /\ UNCHANGED <<ctx, filesVars>>

Acknowledge(yes) == /\ OnStep("security") /\ (IF yes THEN Continue ELSE Abort)
                    /\ UNCHANGED <<ctx, filesVars>>

NoExisting == /\ OnStep("existing") /\ configs[ctx.agent] = Absent /\ Skip /\ UNCHANGED <<ctx, filesVars>>

UseExisting ==
  /\ OnStep("existing") /\ configs[ctx.agent] # Absent
  /\ ctx' = [ctx EXCEPT !.draft = configs[ctx.agent], !.useExisting = TRUE]
  /\ Jump("outro") /\ UNCHANGED filesVars

UpdateExisting ==
  /\ OnStep("existing") /\ configs[ctx.agent] # Absent
  /\ ctx' = [ctx EXCEPT !.draft = configs[ctx.agent]] /\ Continue /\ UNCHANGED filesVars

\* Mutant: the file is replaced by the defaults as soon as "reset" was typed.
AtResetNow == [configs EXCEPT ![ctx.agent] = Defaults]

\* What `reset` leaves of the file right away: it is renamed at the summary only.
AtReset == configs

Reset ==
  /\ OnStep("existing") /\ configs[ctx.agent] # Absent
  /\ ctx' = [ctx EXCEPT !.draft = Defaults, !.resetPending = TRUE]
  /\ configs' = AtReset
  /\ Continue /\ UNCHANGED <<renamed, before, authRuns, confirmed>>
-----------------------------------------------------------------------------
(* The flow, the provider and its credential. *)

PickFlow(f) ==
  /\ OnStep("flow") /\ (ctx.flow # "manual" => f = ctx.flow)
  /\ ctx' = [ctx EXCEPT !.flow = f] /\ Continue /\ UNCHANGED filesVars

QuickStart == /\ OnStep("qs_summary") /\ (IF ctx.flow = "quickstart" THEN Continue ELSE Skip)
              /\ UNCHANGED <<ctx, filesVars>>

ChooseProvider(p) == /\ OnStep("provider") /\ ctx' = [ctx EXCEPT !.auth = p] /\ Continue /\ UNCHANGED filesVars

BackFrom(s) == /\ OnStep(s) /\ Back /\ UNCHANGED <<ctx, filesVars>>

NoMethods == /\ OnStep("method") /\ MethodsOf(ctx.auth) = << >> /\ Skip /\ UNCHANGED <<ctx, filesVars>>

PickMethod(m) ==
  /\ OnStep("method") /\ \E i \in 1 .. Len(MethodsOf(ctx.auth)) : MethodsOf(ctx.auth)[i] = m
  /\ ctx' = [ctx EXCEPT !.method = m] /\ Continue /\ UNCHANGED filesVars

BackToProvider == Len(MethodsOf(ctx.auth)) > 1 /\ BackFrom("method")

NoCredential == /\ OnStep("run_auth") /\ ctx.auth = "skip" /\ Skip /\ UNCHANGED <<ctx, filesVars>>

Method == IF ctx.method # "none" THEN ctx.method
          ELSE IF MethodsOf(ctx.auth) # << >> THEN MethodsOf(ctx.auth)[1] ELSE "api-key"

\* The login stores its token itself; a key goes into the draft.
RunAuth ==
  /\ OnStep("run_auth") /\ ctx.auth # "skip"
  /\ authRuns' = authRuns \cup {[provider |-> ctx.auth, method |-> Method]}
  /\ ctx' = IF Method = "browser-login" THEN ctx ELSE [ctx EXCEPT !.draft = Edited(@)]
  /\ Continue /\ UNCHANGED <<configs, renamed, before, confirmed>>

\* A failed login and an empty key abort.
AuthFails == /\ OnStep("run_auth") /\ ctx.auth # "skip" /\ Abort /\ UNCHANGED <<ctx, filesVars>>

\* The credential the draft has already may be kept.
KeepCredential == /\ OnStep("run_auth") /\ ctx.auth # "skip" /\ ctx.draft # Defaults
                  /\ Continue /\ UNCHANGED <<ctx, filesVars>>
-----------------------------------------------------------------------------
(* Steps that edit the draft. *)

\* The field editor works on a copy: its edits come back unless discarded.
Kept(edits) == IF edits THEN Edited(ctx.draft) ELSE ctx.draft

Decide(s, edits) == /\ OnStep(s) /\ ctx' = [ctx EXCEPT !.draft = Kept(edits)]
                    /\ Continue /\ UNCHANGED filesVars
Passed(s) == OnStep(s) /\ Skip /\ UNCHANGED <<ctx, filesVars>>

DefaultModel(edits) == IF ctx.auth = "skip" THEN Passed("default_model") ELSE Decide("default_model", edits)
Presets(edits) == IF ctx.flow = "quickstart" THEN Passed("presets") ELSE Decide("presets", edits)
Workspace == Decide("workspace", TRUE)
Channels(edits) == Decide("channels", edits)
SearchProvider(edits) == IF ctx.flow # "manual" THEN Passed("search") ELSE Decide("search", edits)

BackToAuth == ctx.auth # "skip" /\ BackFrom("default_model")
-----------------------------------------------------------------------------
(* The summary, the gateway, and what the command does afterwards. *)

Discard == /\ OnStep("summary") /\ Abort /\ UNCHANGED <<ctx, filesVars>>

SetAside == ctx.resetPending /\ configs[ctx.agent] # Absent
Renamed  == IF SetAside THEN renamed \cup {configs[ctx.agent]} ELSE renamed

Save ==
  /\ OnStep("summary") /\ renamed' = Renamed
  /\ configs' = [configs EXCEPT ![ctx.agent] = ctx.draft]
  /\ confirmed' = confirmed \cup {ctx.agent}
  /\ ctx' = [ctx EXCEPT !.useExisting = FALSE]
  /\ Continue /\ UNCHANGED <<before, authRuns>>

\* The write is refused: what was set aside stays set aside.
SaveFails ==
  /\ OnStep("summary") /\ renamed' = Renamed
  /\ configs' = IF SetAside THEN [configs EXCEPT ![ctx.agent] = Absent] ELSE configs
  /\ Abort /\ UNCHANGED <<ctx, before, authRuns, confirmed>>

Health == /\ OnStep("health") /\ (IF ctx.useExisting THEN Skip ELSE Continue) /\ UNCHANGED <<ctx, filesVars>>

StartGateway == /\ OnStep("start_gateway") /\ ~ctx.useExisting
                /\ ending' = "replaced" /\ UNCHANGED <<place, walked, ctx, filesVars>>

NoGateway == /\ OnStep("start_gateway") /\ Continue /\ UNCHANGED <<ctx, filesVars>>

\* The command saves the result at the path it looked up before the wizard.
Conclude ==
  /\ OnStep("end") /\ ending' = "finished"
  /\ configs' = IF ctx.useExisting THEN configs ELSE [configs EXCEPT ![FirstAgent] = ctx.draft]
  /\ UNCHANGED <<place, walked, ctx, renamed, before, authRuns, confirmed>>

WizardNext ==
  \/ Cancel \/ Show \/ KeepAgent \/ WrongAgent
  \/ \E a \in WizAgents : PickAgent(a) \/ CreateAgent(a)
  \/ \E yes \in BOOLEAN : Acknowledge(yes)
  \/ NoExisting \/ UseExisting \/ UpdateExisting \/ Reset
  \/ \E f \in {"quickstart", "manual"} : PickFlow(f)
  \/ QuickStart \/ (\E p \in ProviderOptions : ChooseProvider(p)) \/ BackFrom("provider")
  \/ NoMethods \/ (\E m \in {"browser-login", "api-key"} : PickMethod(m)) \/ BackToProvider
  \/ NoCredential \/ RunAuth \/ AuthFails \/ KeepCredential
  \/ Workspace
  \/ \E edits \in BOOLEAN : DefaultModel(edits) \/ Presets(edits) \/ Channels(edits) \/ SearchProvider(edits)
  \/ BackToAuth \/ Discard \/ Save \/ SaveFails \/ Health \/ StartGateway \/ NoGateway \/ Conclude

WizardSpec == WizardInit /\ [][WizardNext]_wizardVars
-----------------------------------------------------------------------------
(* Properties. *)

\* A credential is asked for in a way the provider has, whatever providers and
\* methods were picked and gone back from before.
MethodFits == \A r \in authRuns :
  r.method \in (IF MethodsOf(r.provider) = << >> THEN {"api-key"} ELSE ToSet(MethodsOf(r.provider)))

\* Until the user confirms the summary, or if they never do, the settings of
\* every agent are still in its file or in a renamed one, also after a reset.
UnsavedKept ==
  confirmed = {} =>
    \A a \in WizAgents : before[a] # Absent => configs[a] = before[a] \/ before[a] \in renamed

\* What the agent step says: every later step writes the chosen agent's file
\* (cli/onboard_steps/agent_id.py, module docstring).
OnlyChosenWritten == \A a \in WizAgents :
  before[a] # Absent /\ configs[a] # before[a] => a = ctx.agent

\* What a wizard records, and what it leaves alone.
WizardSound == MethodFits /\ UnsavedKept
=============================================================================
