---------------------------- MODULE ProviderSettings ----------------------------
(***************************************************************************)
(* The settings of the inference provider, from the hands of the user to the  *)
(* running Sidecar: the controller of a Pi session                            *)
(* (mentis-settings-controller.ts), the configuration file that all sessions    *)
(* share and the keychain (provider-settings.ts), the reload of the Sidecar      *)
(* (sidecar-runtime.ts), and the embedding space that an index is bound to when   *)
(* the store is opened (zvec-storage).                                       *)
(***************************************************************************)
EXTENDS Naturals, FiniteSets

CONSTANTS Sessions,      \* Pi sessions, each with its controller and its Sidecar
          Models,        \* the verified embedding models
          Supported,     \* model -> the dimensions it supports
          Default,       \* model -> its default dimensions
          Key, EnvKey,   \* a key the user enters; the key in the environment, or NoSetting
          NoSetting,
          ActLimit, SlipLimit, LossLimit   \* bounds

VARIABLES file,      \* the configuration on disk: [model, dims]
          secret,    \* the key in the keychain, or NoSetting
          index,     \* the embedding space of the active generation, or NoSetting
          vectors,   \* the models whose vectors were written to it
          side,      \* session -> its Sidecar
          loads,     \* session -> the reloads under way in it
          ctl,       \* session -> its controller
          undone,    \* the sessions whose setting another session or a late reload may undo
          acts, slips, losses

settingsVars == <<file, secret, index, vectors, side, loads, ctl, undone, acts, slips, losses>>

Configs == {[model |-> m, dims |-> d] : m \in Models, d \in UNION {Supported[m] : m \in Models}}
Valid(config) == config.dims \in Supported[config.model]
\* The delegates of a provider.
Delegates == [model : Models, dims : UNION {Supported[m] : m \in Models}, key : {Key, EnvKey}]
\* A default that is supported; the sign for no setting is not one.
ASSUME SettingsAssumption == /\ \A m \in Models : Default[m] \in Supported[m]
                             /\ NoSetting \notin Configs \cup Delegates
Down == [state |-> "down", config |-> NoSetting, delegate |-> NoSetting, space |-> NoSetting]
IdleControl == [pc |-> "idle", goal |-> "none", draft |-> NoSetting, previous |-> NoSetting,
                next |-> NoSetting, load |-> 0]

SettingsInit == /\ file \in {c \in Configs : Valid(c)} /\ secret = NoSetting
                /\ index = NoSetting /\ vectors = {}
                /\ side = [s \in Sessions |-> Down] /\ loads = [s \in Sessions |-> {}]
                /\ ctl = [s \in Sessions |-> IdleControl] /\ undone = {}
                /\ acts = 0 /\ slips = 0 /\ losses = 0

SlipHappens == slips < SlipLimit /\ slips' = slips + 1

-----------------------------------------------------------------------------
\* resolveCredential: the keychain first; one that is empty or fails, then the environment.
\* #prepareProvider: the delegates of a configuration, none without a key.
Resolved(works) == IF works /\ secret # NoSetting THEN secret ELSE EnvKey
PreparedProvider(config, works) ==
    IF Resolved(works) = NoSetting THEN NoSetting
    ELSE [model |-> config.model, dims |-> config.dims, key |-> Resolved(works)]
Keychain(works) == IF works THEN UNCHANGED slips ELSE secret # NoSetting /\ SlipHappens

\* #initialize loads the configuration and prepares the provider before it opens the store.
Initialize(s) ==
    /\ side[s].state = "down"
    /\ \E works \in BOOLEAN :
          /\ Keychain(works)
          /\ side' = [side EXCEPT ![s] = [state |-> "opening", config |-> file, space |-> file,
                                          delegate |-> PreparedProvider(file, works)]]
    /\ UNCHANGED <<file, secret, index, vectors, loads, ctl, undone, acts, losses>>

\* start of the store.  An index is opened by the space it was made for, and by no other;
\* without one, it is made under the write guard.
\* Mutant: an index is opened whatever made it.
Openable(s) == TRUE
Compatible(s) == side[s].space = index
OpenStore(s) ==
    /\ side[s].state = "opening"
    /\ side' = IF index = NoSetting THEN [side EXCEPT ![s].state = "making"]
               ELSE IF Compatible(s) THEN [side EXCEPT ![s].state = "up"]
               ELSE [side EXCEPT ![s] = Down]
    /\ UNCHANGED <<file, secret, index, vectors, loads, ctl, undone, acts, slips, losses>>
\* One that another process has made in the meantime is taken as it is.
Make(s) ==
    /\ side[s].state = "making"
    /\ side' = [side EXCEPT ![s].state = "up"]
    /\ index' = IF index = NoSetting THEN side[s].space ELSE index
    /\ UNCHANGED <<file, secret, vectors, loads, ctl, undone, acts, slips, losses>>

SidecarDies(s) ==
    /\ side[s].state # "down" /\ losses < LossLimit /\ losses' = losses + 1
    /\ side' = [side EXCEPT ![s] = Down] /\ loads' = [loads EXCEPT ![s] = {}]
    /\ ctl' = IF ctl[s].pc = "waiting" THEN [ctl EXCEPT ![s] = [IdleControl EXCEPT !.goal = "error"]] ELSE ctl
    /\ UNCHANGED <<file, secret, index, vectors, undone, acts, slips>>

\* A memory or a document is embedded by the delegate and written to the index.
Write(s) ==
    /\ side[s].state = "up" /\ side[s].delegate # NoSetting
    /\ vectors' = vectors \cup {side[s].delegate.model}
    /\ UNCHANGED <<file, secret, index, side, loads, ctl, undone, acts, slips, losses>>

-----------------------------------------------------------------------------
\* #reloadProvider.  The answer reaches the controller if it still waits for it.
Outcome(goal, activated) ==
    CASE goal = "select" -> "changed"
      [] goal = "restore" -> IF activated THEN "restored" ELSE "degraded"
      [] goal = "store" -> IF activated THEN "activated" ELSE "stored"
      [] goal = "remove" -> "removed"
Answer(s, load, activated) ==
    IF ctl[s].pc # "waiting" \/ ctl[s].load # load.id THEN ctl
    ELSE IF ctl[s].goal = "select" /\ ~activated
    THEN [ctl EXCEPT ![s].pc = "load", ![s].goal = "restore", ![s].draft = ctl[s].previous.model]
    ELSE [ctl EXCEPT ![s].pc = "idle", ![s].goal = Outcome(ctl[s].goal, activated)]

\* The new configuration is read; one of other dimensions is refused.
\* Mutant: it is not.
AnyDims(load) == TRUE
SameDims(load) == file.dims = load.current.dims
LoadConfig(s) ==
    \E load \in loads[s] :
        /\ load.stage = "config"
        /\ IF SameDims(load)
           THEN /\ loads' = [loads EXCEPT ![s] = (@ \ {load})
                                \cup {[load EXCEPT !.stage = "key", !.next = file]}]
                /\ UNCHANGED ctl
           ELSE /\ loads' = [loads EXCEPT ![s] = @ \ {load}]
                /\ ctl' = Answer(s, load, FALSE)
        /\ UNCHANGED <<file, secret, index, vectors, side, undone, acts, slips, losses>>

\* Both delegates, the configuration and the status change in one step, or nothing does.
\* Mutant: without a key the old delegates stay.
KeepDelegate(s, prepared) == IF prepared = NoSetting THEN side[s].delegate ELSE prepared
Swapped(s, prepared) == prepared
Activate(s) ==
    \E load \in loads[s], works \in BOOLEAN :
        /\ load.stage = "key" /\ Keychain(works)
        /\ side' = [side EXCEPT ![s].config = load.next,
                                ![s].delegate = Swapped(s, PreparedProvider(load.next, works))]
        /\ loads' = [loads EXCEPT ![s] = @ \ {load}]
        /\ ctl' = Answer(s, load, TRUE)
        /\ UNCHANGED <<file, secret, index, vectors, undone, acts, losses>>

-----------------------------------------------------------------------------
Act(s) == ctl[s].pc = "idle" /\ acts < ActLimit /\ acts' = acts + 1
\* A setting may be undone by what another session writes, or by a reload that is late.
Begun(s) == undone' = IF loads[s] = {} THEN undone \ {s} ELSE undone
Overwrites(s) == undone' = undone \cup (Sessions \ {s})

\* #providerModels: what the catalogue offers and Mentis has verified, or all it has verified.
Offered(remote) == IF remote \cap Models = {} THEN Models ELSE remote \cap Models

\* #selectModel: the user selects another model.
Select(s) ==
    /\ Act(s) /\ side[s].state = "up"
    /\ \E remote \in SUBSET Models : \E m \in Offered(remote) \ {file.model} :
          ctl' = [ctl EXCEPT ![s] = [IdleControl EXCEPT !.pc = "load", !.goal = "select",
                                                        !.draft = m, !.previous = file]]
    /\ Begun(s)
    /\ UNCHANGED <<file, secret, index, vectors, side, loads, slips, losses>>

\* save: the model of the draft, with the dimensions of the file if the model supports them.
Applied(m) == [model |-> m, dims |-> IF file.dims \in Supported[m] THEN file.dims ELSE Default[m]]
Load(s) == /\ ctl[s].pc = "load"
           /\ ctl' = [ctl EXCEPT ![s].pc = "save", ![s].next = Applied(ctl[s].draft)]
           /\ UNCHANGED <<file, secret, index, vectors, side, loads, undone, acts, slips, losses>>
Save(s) ==
    /\ ctl[s].pc = "save"
    /\ \/ /\ file' = ctl[s].next /\ ctl' = [ctl EXCEPT ![s].pc = "reload"]
          /\ Overwrites(s) /\ UNCHANGED slips
       \/ /\ SlipHappens /\ ctl' = [ctl EXCEPT ![s] = [IdleControl EXCEPT !.goal = "error"]]
          /\ UNCHANGED <<file, undone>>
    /\ UNCHANGED <<secret, index, vectors, side, loads, acts, losses>>

\* #credential: the user enters a key.  #removeCredential: the stored one is removed.
Store(s, goal, value) ==
    /\ Act(s) /\ side[s].state = "up"
    /\ secret # value /\ secret' = value
    /\ ctl' = [ctl EXCEPT ![s] = [IdleControl EXCEPT !.pc = "reload", !.goal = goal]]
    /\ undone' = (IF loads[s] = {} THEN undone \ {s} ELSE undone) \cup (Sessions \ {s})
    /\ UNCHANGED <<file, index, vectors, side, loads, slips, losses>>
Credential(s) == Store(s, "store", Key)
RemoveCredential(s) == Store(s, "remove", NoSetting)

\* The request to reload; a Sidecar that is not up does not take it.
Reload(s) ==
    /\ ctl[s].pc = "reload"
    /\ IF side[s].state = "up"
       THEN LET id == 1 + Cardinality(loads[s]) + acts IN
            /\ loads' = [loads EXCEPT ![s] = @ \cup
                            {[id |-> id, stage |-> "config", current |-> side[s].config, next |-> NoSetting]}]
            /\ ctl' = [ctl EXCEPT ![s].pc = "waiting", ![s].load = id]
       ELSE /\ ctl' = [ctl EXCEPT ![s] = [IdleControl EXCEPT !.goal = "error"]] /\ UNCHANGED loads
    /\ UNCHANGED <<file, secret, index, vectors, side, undone, acts, slips, losses>>

\* The request times out, and the reload goes on without it.
Timeout(s) == /\ ctl[s].pc = "waiting" /\ SlipHappens
              /\ ctl' = [ctl EXCEPT ![s] = [IdleControl EXCEPT !.goal = "error"]] /\ undone' = undone \cup {s}
              /\ UNCHANGED <<file, secret, index, vectors, side, loads, acts, losses>>

SettingsNext ==
    \E s \in Sessions :
        \/ Initialize(s) \/ OpenStore(s) \/ Make(s) \/ SidecarDies(s) \/ Write(s)
        \/ LoadConfig(s) \/ Activate(s)
        \/ Select(s) \/ Load(s) \/ Save(s) \/ Credential(s) \/ RemoveCredential(s)
        \/ Reload(s) \/ Timeout(s)
SettingsSpec == SettingsInit /\ [][SettingsNext]_settingsVars

-----------------------------------------------------------------------------
Up == {s \in Sessions : side[s].state = "up"}
SettingsTypeOK ==
    /\ file \in Configs /\ Valid(file) /\ secret \in {Key, NoSetting} /\ index \in Configs \cup {NoSetting}
    /\ vectors \subseteq Models /\ undone \subseteq Sessions

\* What a Sidecar serves is what its status says: the delegates of the configuration it
\* reports, whichever reloads overlap; and its vectors fit the index it has opened.
ServedAsConfigured ==
    \A s \in Up :
        /\ side[s].delegate # NoSetting =>
               side[s].delegate.model = side[s].config.model /\ side[s].delegate.dims = side[s].config.dims
        /\ side[s].config.dims = index.dims /\ side[s].space = index

\* A setting that was reported as made is made: the model is in the file and serves, the key
\* that was removed does not, unless another session meddled or an earlier reload is late.
ReportIsTrue ==
    \A s \in Up \ undone : ctl[s].pc = "idle" /\ loads[s] = {} =>
        /\ ctl[s].goal = "changed" => side[s].config.model = ctl[s].draft /\ file.model = ctl[s].draft
        /\ ctl[s].goal = "removed" /\ file.dims = index.dims /\ side[s].delegate # NoSetting
               => side[s].delegate.key = EnvKey

\* What must always hold of the settings.
SettingsHold == SettingsTypeOK /\ ServedAsConfigured /\ ReportIsTrue

\* docs/inference.md 3-6: "An embedding space is identified by provider, model, dimensions",
\* so an index holds vectors of the model of its space.
IndexHoldsItsModel == index # NoSetting => vectors \subseteq {index.model}

=============================================================================
