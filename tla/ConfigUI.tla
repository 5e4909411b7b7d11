------------------------------ MODULE ConfigUI ------------------------------
(***************************************************************************)
(* The editor page of the config service (configsvc/ui/app.js): one        *)
(* browser thread whose handlers run to the next await, the requests they  *)
(* leave in flight, and the bundles the service stores.  An answer is used *)
(* whenever it comes, under whatever service and version the page names by *)
(* then.                                                                   *)
(*                                                                         *)
(* A text is <<service, version, n>>: what was stored for them before the  *)
(* page was opened (n = 0), or what the user typed as the n-th event while *)
(* the page named that service and version; Blank is the page's "{ }".     *)
(* The service handles a request in one step here; BundleStore has its     *)
(* steps.                                                                  *)
(***************************************************************************)
EXTENDS Naturals

CONSTANTS
  Services,        \* service names, stored or typed at the prompt
  Versions,        \* template versions
  DefaultVersion,  \* "v1.0.0"
  Envs,            \* the options of the environment selector
  Base,            \* the environment selected after a load
  None,            \* no service, no version, no object
  Blank,           \* the text shown where there is none
  Slots,           \* bound: requests in flight
  MaxEvents        \* bound: clicks and texts typed

ASSUME NamesAssumption ==
  /\ DefaultVersion \in Versions
  /\ Base \in Envs
  /\ None \notin Services \cup Versions
ASSUME EventsAssumption == MaxEvents \in Nat

OwnTexts(s, v) == ({s} \X {v} \X (0 .. MaxEvents)) \cup {Blank}
Texts == UNION {OwnTexts(s, v) : s \in Services \cup {None}, v \in Versions \cup {None}}
ASSUME TextsAssumption == None \notin Texts

VARIABLES
  templates,  \* the bucket: the template of each service and version
  files,      \* the bucket: the values of each service and environment
  service,    \* currentService
  version,    \* currentTemplateName, also what its selector shows
  options,    \* the versions in that selector
  env,        \* currentEnv
  template,   \* the template editor
  values,     \* valuesStore
  value,      \* the value editor
  enabled,    \* can the save button be pressed
  saved,      \* is the badge shown, and does it say "Saved!"
  net,        \* the requests in flight
  events,     \* what the user did so far
  calm,       \* history: no event came between a load and its answer
  typed,      \* history: the last text typed for each environment since a load
  sent        \* history: the last save, or None if saves overlapped

vars == <<templates, files, service, version, options, env, template, values,
          value, enabled, saved, net, events, calm, typed, sent>>

BlankValues == [e \in Envs |-> Blank]

(* done: the service has handled it; options, template and values are what *)
(* it answered, or for a save what it carries.                             *)
Requests == [kind : {"free", "versions", "bundle", "save"},
             svc : Services \cup {None}, ver : Versions \cup {None}, done : BOOLEAN,
             options : SUBSET Versions, template : Texts, values : [Envs -> Texts]]

Request(k, s, v, t, vs) ==
  [kind |-> k, svc |-> s, ver |-> v, done |-> FALSE, options |-> {},
   template |-> t, values |-> vs]
Free == Request("free", None, None, Blank, BlankValues)

TypeOK ==
  /\ templates \in [Services \X Versions -> Texts \cup {None}]
  /\ files \in [Services \X Envs -> Texts \cup {None}]
  /\ service \in Services \cup {None}
  /\ version \in Versions \cup {None}
  /\ options \subseteq Versions
  /\ env \in Envs
  /\ template \in Texts
  /\ values \in [Envs -> Texts]
  /\ value \in Texts
  /\ enabled \in BOOLEAN
  /\ enabled => service # None /\ version # None
  /\ saved \in BOOLEAN
  /\ net \in [Slots -> Requests]
  /\ events \in 0 .. MaxEvents
  /\ calm \in BOOLEAN
  /\ typed \in [Envs -> Texts \cup {None}]
  /\ sent \in Requests \cup {None}

NothingTyped == [e \in Envs |-> None]

Init ==
  /\ templates \in {t \in [Services \X Versions -> Texts \cup {None}] :
        \A s \in Services, v \in Versions : t[<<s, v>>] \in {None, <<s, v, 0>>}}
  /\ files = [p \in Services \X Envs |-> <<p[1], DefaultVersion, 0>>]
  /\ service = None
  /\ version = None
  /\ options = {}
  /\ env = Base
  /\ template = Blank
  /\ values = BlankValues
  /\ value = Blank
  /\ enabled = FALSE
  /\ saved = FALSE
  /\ net = [k \in Slots |-> Free]
  /\ events = 0
  /\ calm = TRUE
  /\ typed = NothingTyped
  /\ sent = None

Loading == \E k \in Slots : net[k].kind \in {"versions", "bundle"}
Saving == \E k \in Slots : net[k].kind = "save"

(* Something the user does. *)
Event ==
  /\ events < MaxEvents
  /\ events' = events + 1
  /\ calm' = (calm /\ ~Loading)

---------------------------------------------------------------------------
(* What is shown after a load, and by the three blank pages. *)
Show(t, vs) ==
  /\ template' = t
  /\ values' = vs
  /\ env' = Base
  /\ value' = vs[Base]
  /\ enabled' = TRUE
  /\ typed' = NothingTyped

(* loadTemplateAndValues up to its await: it asks for currentService. *)
KeepsName(v) == version' = version
NamesLoaded(v) == version' = v

LoadInto(k, v) ==
  /\ NamesLoaded(v)
  /\ net' = [net EXCEPT ![k] = Request("bundle", service, v, Blank, BlankValues)]

(* A click in the sidebar: selectService up to its await. *)
Select(s, k) ==
  /\ net[k] = Free
  /\ Event
  /\ service' = s
  /\ net' = [net EXCEPT ![k] = Request("versions", s, None, Blank, BlankValues)]
  /\ UNCHANGED <<templates, files, version, options, env, template, values, value,
                 enabled, saved, typed, sent>>

(* The versions are here: the first is loaded, or a blank default shown.   *)
VersionsArrive(k) ==
  /\ net[k].kind = "versions"
  /\ net[k].done
  /\ \/ /\ net[k].options # {}
        /\ options' = net[k].options
        /\ \E v \in options' : LoadInto(k, v)
        /\ UNCHANGED <<template, values, env, value, enabled, typed>>
     \/ /\ net[k].options = {}
        /\ options' = {DefaultVersion}
        /\ version' = DefaultVersion
        /\ Show(Blank, BlankValues)
        /\ net' = [net EXCEPT ![k] = Free]
  /\ UNCHANGED <<templates, files, service, saved, events, calm, sent>>

(* fetchAPI throws: the page keeps everything but the service's name. *)
VersionsFail(k) ==
  /\ net[k].kind = "versions"
  /\ net' = [net EXCEPT ![k] = Free]
  /\ calm' = FALSE
  /\ UNCHANGED <<templates, files, service, version, options, env, template, values,
                 value, enabled, saved, events, typed, sent>>

(* The bundle is here, or failed: then blank texts are shown for it. *)
BundleArrive(k) ==
  /\ net[k].kind = "bundle"
  /\ \/ net[k].done /\ Show(net[k].template, net[k].values)
     \/ Show(Blank, BlankValues)
  /\ saved' = FALSE
  /\ net' = [net EXCEPT ![k] = Free]
  /\ UNCHANGED <<templates, files, service, version, options, events, calm, sent>>

(* Another version is chosen, and unsaved template changes given up; a     *)
(* refusal reverts the selector.                                           *)
ChangeVersion(v, k) ==
  /\ service # None
  /\ net[k] = Free
  /\ v \in options \ {version}
  /\ Event
  /\ LoadInto(k, v)
  /\ UNCHANGED <<templates, files, service, options, env, template, values, value,
                 enabled, saved, typed, sent>>

(* The prompt for a new service; nothing asks whether the name is new. *)
AddService(s) ==
  /\ Event
  /\ service' = s
  /\ options' = {DefaultVersion}
  /\ version' = DefaultVersion
  /\ Show(Blank, BlankValues)
  /\ saved' = FALSE
  /\ UNCHANGED <<templates, files, net, sent>>

---------------------------------------------------------------------------
(* The editor's text goes to the old environment, then the new is shown. *)
Unflushed == values
Flushed == [values EXCEPT ![env] = value]

ChangeEnv(e) ==
  /\ service # None
  /\ e # env
  /\ Event
  /\ values' = Flushed
  /\ env' = e
  /\ value' = values'[e]
  /\ UNCHANGED <<templates, files, service, version, options, template, enabled,
                 saved, net, typed, sent>>

NewText == <<service, version, events + 1>>

TypeTemplate ==
  /\ Event
  /\ template' = NewText
  /\ saved' = FALSE
  /\ UNCHANGED <<templates, files, service, version, options, env, values, value,
                 enabled, net, typed, sent>>

TypeValue ==
  /\ Event
  /\ value' = NewText
  /\ values' = [values EXCEPT ![env] = NewText]
  /\ typed' = [typed EXCEPT ![env] = NewText]
  /\ saved' = FALSE
  /\ UNCHANGED <<templates, files, service, version, options, env, template,
                 enabled, net, sent>>

(* A Tab key, or for values the Format button: a script sets the editor,   *)
(* and no input handler runs.  The values are stored at the next flush.    *)
TabTemplate ==
  /\ Event
  /\ template' = NewText
  /\ UNCHANGED <<templates, files, service, version, options, env, values, value,
                 enabled, saved, net, typed, sent>>

FormatValue ==
  /\ Event
  /\ value' = NewText
  /\ typed' = [typed EXCEPT ![env] = NewText]
  /\ UNCHANGED <<templates, files, service, version, options, env, template, values,
                 enabled, saved, net, sent>>

(* The save button: the current editor is flushed, the PUT sent. *)
Save(k) ==
  /\ enabled
  /\ net[k] = Free
  /\ Event
  /\ values' = Flushed
  /\ LET r == Request("save", service, version, template, values') IN
       /\ net' = [net EXCEPT ![k] = r]
       /\ sent' = IF Saving THEN None ELSE r
  /\ saved' = FALSE
  /\ UNCHANGED <<templates, files, service, version, options, env, template, value,
                 enabled, typed>>

AnyAnswer(k) == TRUE
AnswerOk(k) == net[k].done

(* The badge says "Saved!", unless it was hidden since the save was sent:  *)
(* then it stays hidden.                                                   *)
SaveArrives(k) ==
  /\ net[k].kind = "save"
  /\ AnswerOk(k)
  /\ saved' \in BOOLEAN
  /\ net' = [net EXCEPT ![k] = Free]
  /\ UNCHANGED <<templates, files, service, version, options, env, template, values,
                 value, enabled, events, calm, typed, sent>>

(* 500 or no answer, the bundle stored or not. *)
SaveFails(k) ==
  /\ net[k].kind = "save"
  /\ net' = [net EXCEPT ![k] = Free]
  /\ UNCHANGED <<templates, files, service, version, options, env, template, values,
                 value, enabled, saved, events, calm, typed, sent>>

(* Three seconds after some save the badge is cleared, whatever it says. *)
ClearBadge ==
  /\ saved
  /\ saved' = FALSE
  /\ UNCHANGED <<templates, files, service, version, options, env, template, values,
                 value, enabled, net, events, calm, typed, sent>>

---------------------------------------------------------------------------
(* The service handles a request. *)
TextOf(t) == IF t = None THEN Blank ELSE t

ServeLoad(k) ==
  /\ net[k].kind \in {"versions", "bundle"}
  /\ ~net[k].done
  /\ LET r == net[k] IN
       net' = [net EXCEPT ![k] =
         IF r.kind = "versions"
         THEN [r EXCEPT !.done = TRUE,
                 !.options = {v \in Versions : templates[<<r.svc, v>>] # None}]
         ELSE [r EXCEPT !.done = TRUE,
                 !.template = TextOf(templates[<<r.svc, r.ver>>]),
                 !.values = [e \in Envs |-> TextOf(files[<<r.svc, e>>])]]]
  /\ UNCHANGED <<templates, files, service, version, options, env, template, values,
                 value, enabled, saved, events, calm, typed, sent>>

ServeSave(k) ==
  /\ net[k].kind = "save"
  /\ ~net[k].done
  /\ net' = [net EXCEPT ![k].done = TRUE]
  /\ templates' = [templates EXCEPT ![<<net[k].svc, net[k].ver>>] = net[k].template]
  /\ files' = [p \in Services \X Envs |->
                 IF p[1] = net[k].svc THEN net[k].values[p[2]] ELSE files[p]]
  /\ UNCHANGED <<service, version, options, env, template, values, value, enabled,
                 saved, events, calm, typed, sent>>

---------------------------------------------------------------------------
User ==
  \/ \E s \in Services : AddService(s) \/ \E k \in Slots : Select(s, k)
  \/ \E v \in Versions, k \in Slots : ChangeVersion(v, k)
  \/ \E e \in Envs : ChangeEnv(e)
  \/ TypeTemplate
  \/ TypeValue
  \/ TabTemplate
  \/ FormatValue
  \/ \E k \in Slots : Save(k)

Answer(k) ==
  \/ VersionsArrive(k)
  \/ VersionsFail(k)
  \/ BundleArrive(k)
  \/ SaveArrives(k)
  \/ SaveFails(k)

Next ==
  \/ User
  \/ ClearBadge
  \/ \E k \in Slots : Answer(k) \/ ServeLoad(k) \/ ServeSave(k)

Spec == Init /\ [][Next]_vars

---------------------------------------------------------------------------
(* A user who waits for every load to be answered, and whose lists of      *)
(* versions never fail to come, never stores a text typed or loaded under  *)
(* one service and version in another's template, nor one service's values *)
(* in another's (app.js:58-104, 142-188, 287-306).                         *)
StoredUnderOwnName ==
  calm =>
     /\ \A s \in Services, v \in Versions : templates[<<s, v>>] \in OwnTexts(s, v) \cup {None}
     /\ \A s \in Services, e \in Envs : files[<<s, e>>] # None =>
           \E v \in Versions : files[<<s, e>>] \in OwnTexts(s, v)

(* What the user typed for an environment is what the page shows for it,   *)
(* and sends, until another bundle is shown: switching environments in any *)
(* order, and saving, neither lose nor mix texts, nor what Tab and Format  *)
(* made of them unheard by the input handler (app.js:190-210, 274-294,     *)
(* 321-332).                                                               *)
Shown(e) == IF e = env THEN value ELSE values[e]

EnvTextsKept == \A e \in Envs : typed[e] # None => Shown(e) = typed[e]

(* While the badge says "Saved!", the service holds what the last save     *)
(* sent, unless another save was still in flight then (app.js:302-314).    *)
SavedIsStored ==
  saved /\ sent # None =>
     /\ templates[<<sent.svc, sent.ver>>] = sent.template
     /\ \A e \in Envs : files[<<sent.svc, e>>] = sent.values[e]
=============================================================================
