--------------------------- MODULE ConfigUIProofs ---------------------------
(***************************************************************************)
(* What holds of the editor page for every set of services, versions and   *)
(* environments, and any number of events and requests in flight.          *)
(***************************************************************************)
EXTENDS ConfigUI, TLAPS

---------------------------------------------------------------------------
LEMMA BlankType ==
  /\ Blank \in Texts
  /\ Blank # None
  /\ BlankValues \in [Envs -> Texts]
  /\ \A e \in Envs : BlankValues[e] = Blank
  /\ \A s, v : Blank \in OwnTexts(s, v)
<1>1. \A s, v : Blank \in OwnTexts(s, v)
  BY DEF OwnTexts
<1>2. Blank \in Texts
  BY <1>1, NamesAssumption DEF Texts
<1> QED
  BY <1>1, <1>2, TextsAssumption DEF BlankValues

LEMMA OwnType ==
  ASSUME NEW s \in Services \cup {None}, NEW v \in Versions \cup {None}
  PROVE  /\ OwnTexts(s, v) \subseteq Texts
         /\ \A n \in 0 .. MaxEvents : <<s, v, n>> \in OwnTexts(s, v)
<1>1. OwnTexts(s, v) \in {OwnTexts(a, b) : a \in Services \cup {None}, b \in Versions \cup {None}}
  OBVIOUS
<1>2. \A n \in 0 .. MaxEvents : <<s, v, n>> \in OwnTexts(s, v)
  BY DEF OwnTexts
<1> QED
  BY <1>1, <1>2 DEF Texts

LEMMA RequestType ==
  ASSUME NEW k \in {"free", "versions", "bundle", "save"},
         NEW s \in Services \cup {None}, NEW v \in Versions \cup {None},
         NEW t \in Texts, NEW vs \in [Envs -> Texts]
  PROVE  Request(k, s, v, t, vs) \in Requests
BY DEF Request, Requests

LEMMA FreeType == Free \in Requests
BY RequestType, BlankType DEF Free

LEMMA AnswerType ==
  ASSUME NEW r \in Requests
  PROVE  /\ [r EXCEPT !.done = TRUE] \in Requests
         /\ \A os \in SUBSET Versions : [r EXCEPT !.done = TRUE, !.options = os] \in Requests
         /\ \A t \in Texts, vs \in [Envs -> Texts] :
               [r EXCEPT !.done = TRUE, !.template = t, !.values = vs] \in Requests
BY DEF Requests

LEMMA FieldType ==
  ASSUME NEW r \in Requests
  PROVE  /\ r.svc \in Services \cup {None}
         /\ r.ver \in Versions \cup {None}
         /\ r.options \in SUBSET Versions
         /\ r.template \in Texts
         /\ r.values \in [Envs -> Texts]
BY DEF Requests

LEMMA NewTextType ==
  ASSUME TypeOK, Event
  PROVE  NewText \in Texts /\ events' \in 0 .. MaxEvents
<1>1. events + 1 \in 0 .. MaxEvents
  BY EventsAssumption DEF TypeOK, Event
<1> QED
  BY <1>1, OwnType DEF TypeOK, NewText, Event

LEMMA ShowType ==
  ASSUME NEW t \in Texts, NEW vs \in [Envs -> Texts], Show(t, vs)
  PROVE  /\ template' \in Texts /\ values' \in [Envs -> Texts] /\ env' \in Envs
         /\ value' \in Texts /\ enabled' = TRUE /\ typed' \in [Envs -> Texts \cup {None}]
BY NamesAssumption DEF Show, NothingTyped

LEMMA TextOfType ==
  ASSUME NEW t \in Texts \cup {None}
  PROVE  TextOf(t) \in Texts
BY BlankType DEF TextOf

---------------------------------------------------------------------------
(* Requests in flight name what they were sent for, and while one that     *)
(* loads is, the page names a service (and a version): so a blank page     *)
(* whose save button can be pressed has names to save under.               *)
NetNamed == \A k \in Slots :
  /\ net[k].kind # "free" => net[k].svc \in Services
  /\ net[k].kind \in {"bundle", "save"} => net[k].ver \in Versions
  /\ net[k].kind \in {"versions", "bundle"} => service # None
  /\ net[k].kind = "bundle" => version # None

TypeInv == TypeOK /\ NetNamed

LEMMA NetStep ==
  ASSUME TypeInv, NEW k \in Slots, NEW r \in Requests,
         net' = [net EXCEPT ![k] = r],
         r.kind # "free" => r.svc \in Services,
         r.kind \in {"bundle", "save"} => r.ver \in Versions,
         r.kind \in {"versions", "bundle"} => service' # None,
         r.kind = "bundle" => version' # None,
         service # None => service' # None,
         version # None => version' # None
  PROVE  net' \in [Slots -> Requests] /\ NetNamed'
BY DEF TypeInv, TypeOK, NetNamed

LEMMA LoadType ==
  ASSUME TypeInv, NEW k \in Slots, NEW v \in Versions, LoadInto(k, v),
         service # None, service' = service
  PROVE  net' \in [Slots -> Requests] /\ NetNamed' /\ version' = v
<1>1. Request("bundle", service, v, Blank, BlankValues) \in Requests
  BY RequestType, BlankType DEF TypeInv, TypeOK
<1>2. version' = v /\ v # None /\ service \in Services
  BY NamesAssumption DEF LoadInto, NamesLoaded, TypeInv, TypeOK
<1>3. PICK r \in Requests :
         /\ net' = [net EXCEPT ![k] = r]
         /\ r.kind = "bundle" /\ r.svc = service /\ r.ver = v
  BY <1>1 DEF LoadInto, Request
<1>4. net' \in [Slots -> Requests] /\ NetNamed'
  <2> HIDE DEF TypeInv
  <2>1. r.svc \in Services /\ r.ver \in Versions /\ service' # None /\ version' # None
    BY <1>2, <1>3
  <2> QED
    BY <1>3, <2>1, NetStep
<1> QED
  BY <1>2, <1>4

LEMMA TypeInit == Init => TypeInv
<1> SUFFICES ASSUME Init PROVE TypeInv
  OBVIOUS
<1>1. \A s \in Services, v \in Versions : <<s, v, 0>> \in Texts
  BY OwnType, EventsAssumption
<1>2. files \in [Services \X Envs -> Texts \cup {None}]
  BY <1>1, NamesAssumption DEF Init
<1>3. net \in [Slots -> Requests]
  BY FreeType DEF Init
<1>4. NetNamed
  BY DEF Init, NetNamed, Free, Request
<1>5. templates \in [Services \X Versions -> Texts \cup {None}]
  BY DEF Init
<1>6. values \in [Envs -> Texts] /\ value \in Texts /\ template \in Texts
  BY BlankType DEF Init
<1>7. typed \in [Envs -> Texts \cup {None}] /\ events \in 0 .. MaxEvents /\ env \in Envs
  BY EventsAssumption, NamesAssumption DEF Init, NothingTyped
<1> QED
  BY <1>2, <1>3, <1>4, <1>5, <1>6, <1>7 DEF Init, TypeInv, TypeOK

LEMMA UserTypeStep ==
  ASSUME TypeInv, User
  PROVE  TypeInv'
<1> USE DEF TypeInv, TypeOK
<1>1. ASSUME NEW s \in Services, AddService(s)
      PROVE  TypeInv'
  <2>1. service' \in Services /\ version' \in Versions /\ service' # None /\ version' # None
    BY <1>1, NamesAssumption DEF AddService
  <2>2. events' \in 0 .. MaxEvents /\ calm' \in BOOLEAN
    BY <1>1, NewTextType DEF AddService, Event
  <2>3. NetNamed'
    BY <1>1, <2>1 DEF AddService, NetNamed
  <2> QED
    BY <1>1, <2>1, <2>2, <2>3, ShowType, BlankType, NamesAssumption DEF AddService
<1>2. ASSUME NEW s \in Services, NEW k \in Slots, Select(s, k)
      PROVE  TypeInv'
  <2>1. Request("versions", s, None, Blank, BlankValues) \in Requests
    BY RequestType, BlankType
  <2>2. events' \in 0 .. MaxEvents /\ calm' \in BOOLEAN
    BY <1>2, NewTextType DEF Select, Event
  <2>3. service' = s /\ s # None /\ version' = version
    BY <1>2, NamesAssumption DEF Select
  <2>4. net' \in [Slots -> Requests] /\ NetNamed'
    <3>1. PICK r \in Requests :
             net' = [net EXCEPT ![k] = r] /\ r.kind = "versions" /\ r.svc = s
      BY <1>2, <2>1 DEF Select, Request
    <3>2. service' # None /\ (version # None => version' # None) /\ r.svc \in Services
      BY <2>3, <3>1
    <3> HIDE DEF TypeInv
    <3> QED
      BY <3>1, <3>2, NetStep
  <2> QED
    BY <1>2, <2>2, <2>3, <2>4 DEF Select
<1>3. ASSUME NEW v \in Versions, NEW k \in Slots, ChangeVersion(v, k)
      PROVE  TypeInv'
  <2>1. net' \in [Slots -> Requests] /\ NetNamed' /\ version' = v /\ v # None
    BY <1>3, LoadType, NamesAssumption DEF ChangeVersion
  <2>2. events' \in 0 .. MaxEvents /\ calm' \in BOOLEAN
    BY <1>3, NewTextType DEF ChangeVersion, Event
  <2> QED
    BY <1>3, <2>1, <2>2 DEF ChangeVersion
<1>4. ASSUME NEW e \in Envs, ChangeEnv(e)
      PROVE  TypeInv'
  <2>1. events' \in 0 .. MaxEvents /\ calm' \in BOOLEAN
    BY <1>4, NewTextType DEF ChangeEnv, Event
  <2>2. values' \in [Envs -> Texts] /\ value' \in Texts
    BY <1>4 DEF ChangeEnv, Flushed
  <2> QED
    BY <1>4, <2>1, <2>2 DEF ChangeEnv, NetNamed
<1>5. CASE TypeTemplate
  BY <1>5, NewTextType DEF TypeTemplate, Event, NetNamed
<1>6. CASE TypeValue
  BY <1>6, NewTextType DEF TypeValue, Event, NetNamed
<1>7. ASSUME NEW k \in Slots, Save(k)
      PROVE  TypeInv'
  <2>1. events' \in 0 .. MaxEvents /\ calm' \in BOOLEAN
    BY <1>7, NewTextType DEF Save, Event
  <2>2. values' \in [Envs -> Texts]
    BY <1>7 DEF Save, Flushed
  <2>3. Request("save", service, version, template, values') \in Requests
    BY <2>2, RequestType
  <2>4. net' \in [Slots -> Requests] /\ NetNamed'
    <3>1. PICK r \in Requests :
             /\ net' = [net EXCEPT ![k] = r]
             /\ r.kind = "save" /\ r.svc = service /\ r.ver = version
      BY <1>7, <2>3 DEF Save, Request
    <3>2. service \in Services /\ version \in Versions /\ service' = service /\ version' = version
      BY <1>7 DEF Save
    <3>3. r.svc \in Services /\ r.ver \in Versions
      BY <3>1, <3>2
    <3> HIDE DEF TypeInv
    <3> QED
      BY <3>1, <3>2, <3>3, NetStep
  <2> QED
    BY <1>7, <2>1, <2>2, <2>3, <2>4 DEF Save
<1>8. CASE TabTemplate
  BY <1>8, NewTextType DEF TabTemplate, Event, NetNamed
<1>9. CASE FormatValue
  BY <1>9, NewTextType DEF FormatValue, Event, NetNamed
<1> QED
  BY <1>1, <1>2, <1>3, <1>4, <1>5, <1>6, <1>7, <1>8, <1>9 DEF User

LEMMA ServeType ==
  ASSUME TypeInv, NEW k \in Slots, net[k].kind \in {"versions", "bundle"}
  PROVE  /\ net[k].kind = "bundle" => TextOf(templates[<<net[k].svc, net[k].ver>>]) \in Texts
         /\ [e \in Envs |-> TextOf(files[<<net[k].svc, e>>])] \in [Envs -> Texts]
<1>1. net[k].svc \in Services /\ (net[k].kind = "bundle" => net[k].ver \in Versions)
  BY DEF TypeInv, NetNamed
<1> QED
  BY <1>1, TextOfType DEF TypeInv, TypeOK

LEMMA ServerTypeStep ==
  ASSUME TypeInv, NEW k \in Slots, ServeLoad(k) \/ ServeSave(k)
  PROVE  TypeInv'
<1>0. net[k] \in Requests
  BY DEF TypeInv, TypeOK
<1>1. CASE ServeLoad(k)
  <2>1. \E r \in Requests :
           /\ net' = [net EXCEPT ![k] = r]
           /\ r.kind = net[k].kind /\ r.svc = net[k].svc /\ r.ver = net[k].ver
    <3>1. CASE net[k].kind = "versions"
      <4> DEFINE os == {v \in Versions : templates[<<net[k].svc, v>>] # None}
                 r == [net[k] EXCEPT !.done = TRUE, !.options = os]
      <4>1. r \in Requests
        BY <1>0, AnswerType
      <4>2. r.kind = net[k].kind /\ r.svc = net[k].svc /\ r.ver = net[k].ver
        BY <1>0 DEF Requests
      <4>3. net' = [net EXCEPT ![k] = r]
        BY <1>1, <3>1 DEF ServeLoad
      <4> QED
        BY <4>1, <4>2, <4>3
    <3>2. CASE net[k].kind = "bundle"
      <4> DEFINE t == TextOf(templates[<<net[k].svc, net[k].ver>>])
                 vs == [e \in Envs |-> TextOf(files[<<net[k].svc, e>>])]
                 r == [net[k] EXCEPT !.done = TRUE, !.template = t, !.values = vs]
      <4>1. r \in Requests
        BY <1>0, <3>2, AnswerType, ServeType
      <4>2. r.kind = net[k].kind /\ r.svc = net[k].svc /\ r.ver = net[k].ver
        BY <1>0 DEF Requests
      <4>3. net' = [net EXCEPT ![k] = r]
        BY <1>1, <3>2 DEF ServeLoad
      <4> QED
        BY <4>1, <4>2, <4>3
    <3> QED
      BY <1>1, <3>1, <3>2 DEF ServeLoad
  <2>2. net' \in [Slots -> Requests] /\ NetNamed'
    BY <1>1, <2>1, NetStep DEF ServeLoad, TypeInv, NetNamed
  <2> QED
    BY <1>1, <2>2 DEF ServeLoad, TypeInv, TypeOK
<1>2. CASE ServeSave(k)
  <2>1. [net[k] EXCEPT !.done = TRUE] \in Requests
    BY <1>0, AnswerType
  <2>2. /\ [net[k] EXCEPT !.done = TRUE].kind = net[k].kind
        /\ [net[k] EXCEPT !.done = TRUE].svc = net[k].svc
        /\ [net[k] EXCEPT !.done = TRUE].ver = net[k].ver
    BY <1>0 DEF Requests
  <2>3. net' = [net EXCEPT ![k] = [net[k] EXCEPT !.done = TRUE]]
    BY <1>2 DEF ServeSave
  <2>4. net' \in [Slots -> Requests] /\ NetNamed'
    BY <1>2, <2>1, <2>2, <2>3, NetStep DEF ServeSave, TypeInv, NetNamed
  <2>5. net[k].template \in Texts /\ net[k].values \in [Envs -> Texts]
    BY <1>0, FieldType
  <2>6. templates' \in [Services \X Versions -> Texts \cup {None}]
    BY <1>2, <2>5 DEF ServeSave, TypeInv, TypeOK
  <2>7. files' \in [Services \X Envs -> Texts \cup {None}]
    BY <1>2, <2>5 DEF ServeSave, TypeInv, TypeOK
  <2> QED
    BY <1>2, <2>4, <2>6, <2>7 DEF ServeSave, TypeInv, TypeOK
<1> QED
  BY <1>1, <1>2

LEMMA FreedType ==
  ASSUME TypeInv, NEW k \in Slots, net' = [net EXCEPT ![k] = Free],
         service # None => service' # None,
         version # None => version' # None
  PROVE  net' \in [Slots -> Requests] /\ NetNamed'
<1>1. Free.kind = "free"
  BY DEF Free, Request
<1> QED
  BY <1>1, FreeType, NetStep

LEMMA PageTypeStep ==
  ASSUME TypeInv, NEW k \in Slots, Answer(k)
  PROVE  TypeInv'
<1>0. net[k] \in Requests
  BY DEF TypeInv, TypeOK
<1>1. CASE VersionsArrive(k)
  <2>1. service \in Services /\ service # None /\ service' = service
    BY <1>1 DEF VersionsArrive, TypeInv, TypeOK, NetNamed
  <2>2. CASE net[k].options # {}
    <3>1. PICK v \in options' : LoadInto(k, v)
      BY <1>1, <2>2 DEF VersionsArrive
    <3>2. options' \subseteq Versions
      BY <1>0, <1>1, <2>2, FieldType DEF VersionsArrive
    <3>3. v \in Versions /\ v # None
      BY <3>2, NamesAssumption
    <3>4. net' \in [Slots -> Requests] /\ NetNamed' /\ version' = v
      BY <2>1, <3>1, <3>3, LoadType
    <3> QED
      BY <1>1, <2>1, <2>2, <3>2, <3>3, <3>4 DEF VersionsArrive, TypeInv, TypeOK
  <2>3. CASE net[k].options = {}
    <3>1. /\ Show(Blank, BlankValues)
          /\ version' = DefaultVersion /\ version' \in Versions /\ version' # None
          /\ options' \subseteq Versions
          /\ net' = [net EXCEPT ![k] = Free]
      BY <1>1, <2>3, NamesAssumption DEF VersionsArrive
    <3>2. net' \in [Slots -> Requests] /\ NetNamed'
      BY <2>1, <3>1, FreedType
    <3>3. /\ template' \in Texts /\ values' \in [Envs -> Texts] /\ env' \in Envs
          /\ value' \in Texts /\ enabled' = TRUE /\ typed' \in [Envs -> Texts \cup {None}]
      BY <3>1, ShowType, BlankType
    <3> QED
      BY <1>1, <2>1, <3>1, <3>2, <3>3 DEF VersionsArrive, TypeInv, TypeOK
  <2> QED
    BY <2>2, <2>3
<1>2. CASE VersionsFail(k)
  <2>1. net' \in [Slots -> Requests] /\ NetNamed'
    BY <1>2, FreedType DEF VersionsFail
  <2> QED
    BY <1>2, <2>1 DEF VersionsFail, TypeInv, TypeOK
<1>3. CASE BundleArrive(k)
  <2>1. service # None /\ version # None
    BY <1>3 DEF BundleArrive, TypeInv, NetNamed
  <2>2. PICK t \in Texts, vs \in [Envs -> Texts] : Show(t, vs)
    BY <1>0, <1>3, FieldType, BlankType DEF BundleArrive
  <2>3. net' \in [Slots -> Requests] /\ NetNamed'
    BY <1>3, FreedType DEF BundleArrive
  <2>4. /\ template' \in Texts /\ values' \in [Envs -> Texts] /\ env' \in Envs
        /\ value' \in Texts /\ enabled' = TRUE /\ typed' \in [Envs -> Texts \cup {None}]
    BY <2>2, ShowType
  <2>5. /\ saved' = FALSE
        /\ UNCHANGED <<templates, files, service, version, options, events, calm, sent>>
    BY <1>3 DEF BundleArrive
  <2> QED
    BY <2>1, <2>3, <2>4, <2>5 DEF TypeInv, TypeOK
<1>4. CASE SaveArrives(k) \/ SaveFails(k)
  <2>1. net' \in [Slots -> Requests] /\ NetNamed'
    BY <1>4, FreedType DEF SaveArrives, SaveFails
  <2>2. /\ saved' \in BOOLEAN
        /\ UNCHANGED <<templates, files, service, version, options, env, template,
                       values, value, enabled, events, calm, typed, sent>>
    BY <1>4 DEF SaveArrives, SaveFails, TypeInv, TypeOK
  <2> QED
    BY <2>1, <2>2 DEF TypeInv, TypeOK
<1> QED
  BY <1>1, <1>2, <1>3, <1>4 DEF Answer

LEMMA TypeStep == TypeInv /\ [Next]_vars => TypeInv'
<1> SUFFICES ASSUME TypeInv, [Next]_vars PROVE TypeInv'
  OBVIOUS
<1>1. CASE User
  BY <1>1, UserTypeStep
<1>2. CASE ClearBadge
  BY <1>2 DEF ClearBadge, TypeInv, TypeOK, NetNamed
<1>3. ASSUME NEW k \in Slots, Answer(k) \/ ServeLoad(k) \/ ServeSave(k)
      PROVE  TypeInv'
  BY <1>3, PageTypeStep, ServerTypeStep
<1>4. CASE UNCHANGED vars
  BY <1>4 DEF vars, TypeInv, TypeOK, NetNamed
<1> QED
  BY <1>1, <1>2, <1>3, <1>4 DEF Next

(* Every variable of the page, the requests and the bucket stays in its    *)
(* type, and the save button can be pressed only while the page names a    *)
(* service and a version (app.js:93-104, 131-136, 170-174).                *)
THEOREM TypeCorrect == Spec => []TypeOK
<1>1. TypeInv => TypeOK
  BY DEF TypeInv
<1> QED
  BY <1>1, TypeInit, TypeStep, PTL DEF Spec

---------------------------------------------------------------------------
LEMMA TextsStep ==
  ASSUME TypeInv, EnvTextsKept, Next
  PROVE  EnvTextsKept'
<1> USE DEF TypeInv, TypeOK, EnvTextsKept, Shown
<1>1. ASSUME NEW t, NEW vs, Show(t, vs)
      PROVE  EnvTextsKept'
  BY <1>1 DEF Show, NothingTyped
<1>2. ASSUME NEW s \in Services, AddService(s)
      PROVE  EnvTextsKept'
  BY <1>1, <1>2 DEF AddService
<1>3. ASSUME NEW e \in Envs, ChangeEnv(e)
      PROVE  EnvTextsKept'
  <2>1. /\ env' = e /\ e # env /\ typed' = typed
        /\ value' = values[e]
        /\ \A x \in Envs : values'[x] = IF x = env THEN value ELSE values[x]
    BY <1>3 DEF ChangeEnv, Flushed
  <2> QED
    BY <2>1
<1>4. CASE TypeValue \/ FormatValue
  BY <1>4 DEF TypeValue, FormatValue
<1>5. ASSUME NEW k \in Slots, Save(k)
      PROVE  EnvTextsKept'
  <2>1. /\ env' = env /\ typed' = typed /\ value' = value
        /\ \A x \in Envs : x # env => values'[x] = values[x]
    BY <1>5 DEF Save, Flushed
  <2> QED
    BY <2>1
<1>6. ASSUME NEW k \in Slots, VersionsArrive(k) \/ BundleArrive(k)
      PROVE  EnvTextsKept'
  <2>1. \/ \E t, vs : Show(t, vs)
        \/ UNCHANGED <<values, env, value, typed>>
    BY <1>6 DEF VersionsArrive, BundleArrive
  <2> QED
    BY <1>1, <2>1
<1>7. CASE UNCHANGED <<values, env, value, typed>>
  BY <1>7
<1>8. ASSUME \/ \E s \in Services, k \in Slots : Select(s, k)
             \/ \E v \in Versions, k \in Slots : ChangeVersion(v, k)
             \/ TypeTemplate \/ TabTemplate
             \/ ClearBadge
             \/ \E k \in Slots : \/ VersionsFail(k) \/ SaveArrives(k) \/ SaveFails(k)
                                 \/ ServeLoad(k) \/ ServeSave(k)
      PROVE  UNCHANGED <<values, env, value, typed>>
  BY <1>8 DEF Select, ChangeVersion, TypeTemplate, TabTemplate, ClearBadge, VersionsFail,
              SaveArrives, SaveFails, ServeLoad, ServeSave
<1> QED
  BY <1>2, <1>3, <1>4, <1>5, <1>6, <1>7, <1>8 DEF Next, User, Answer

(* Whatever order of environment switches, saves, loads and answers, the   *)
(* page shows and sends for each environment what was last typed for it.   *)
THEOREM TextsKept == Spec => []EnvTextsKept
<1>1. Init => TypeInv /\ EnvTextsKept
  BY TypeInit DEF Init, EnvTextsKept, NothingTyped
<1>2. TypeInv /\ EnvTextsKept /\ [Next]_vars => (TypeInv /\ EnvTextsKept)'
  <2> SUFFICES ASSUME TypeInv, EnvTextsKept, [Next]_vars
               PROVE  EnvTextsKept'
    BY TypeStep
  <2>1. CASE UNCHANGED vars
    BY <2>1 DEF vars, EnvTextsKept, Shown
  <2> QED
    BY <2>1, TextsStep
<1> QED
  BY <1>1, <1>2, PTL DEF Spec

---------------------------------------------------------------------------
(* While the last save is known, it is the only save that can be in        *)
(* flight, no badge is shown before it is answered, and once the service   *)
(* has handled it the bucket holds what it carries.                        *)
Stored(r) ==
  /\ templates[<<r.svc, r.ver>>] = r.template
  /\ \A e \in Envs : files[<<r.svc, e>>] = r.values[e]

SaveInv ==
  sent # None =>
     /\ saved => Stored(sent)
     /\ \A k \in Slots : net[k].kind = "save" =>
           /\ ~saved
           /\ net[k].svc = sent.svc /\ net[k].ver = sent.ver
           /\ net[k].template = sent.template /\ net[k].values = sent.values
           /\ net[k].done => Stored(sent)
           /\ \A j \in Slots : net[j].kind = "save" => j = k

LEMMA SaveInvFrame ==
  ASSUME TypeInv, SaveInv, UNCHANGED <<templates, files, sent>>,
         saved' => saved,
         \A k \in Slots : net'[k].kind = "save" => net'[k] = net[k]
  PROVE  SaveInv'
BY DEF SaveInv, Stored

LEMMA SaveInvStep ==
  ASSUME TypeInv, SaveInv, Next
  PROVE  SaveInv'
<1>0. net \in [Slots -> Requests] /\ Free.kind = "free"
  BY DEF TypeInv, TypeOK, Free, Request
<1>1. ASSUME NEW k \in Slots, Save(k)
      PROVE  SaveInv'
  <2>1. CASE Saving
    BY <1>1, <2>1 DEF Save, SaveInv
  <2>2. CASE ~Saving
    <3>1. /\ net' = [net EXCEPT ![k] = sent'] /\ ~saved'
          /\ sent'.done = FALSE
      BY <1>1, <2>2 DEF Save, Request
    <3>2. \A j \in Slots : net[j].kind # "save"
      BY <2>2 DEF Saving
    <3>3. \A j \in Slots : net'[j].kind = "save" => j = k /\ net'[j] = sent'
      BY <1>0, <3>1, <3>2
    <3> QED
      BY <3>1, <3>3 DEF SaveInv
  <2> QED
    BY <2>1, <2>2
<1>2. ASSUME NEW k \in Slots, ServeSave(k)
      PROVE  SaveInv'
  <2>1. SUFFICES ASSUME sent' # None
                 PROVE  SaveInv'
    BY DEF SaveInv
  <2>2. /\ UNCHANGED <<saved, sent>> /\ sent # None
        /\ net' = [net EXCEPT ![k] = [net[k] EXCEPT !.done = TRUE]]
        /\ net[k].kind = "save"
    BY <1>2, <2>1 DEF ServeSave
  <2>3. /\ ~saved
        /\ net[k].svc = sent.svc /\ net[k].ver = sent.ver
        /\ net[k].template = sent.template /\ net[k].values = sent.values
        /\ \A j \in Slots : net[j].kind = "save" => j = k
    BY <2>2 DEF SaveInv
  <2>4. Stored(sent)'
    <3>1. net[k].svc \in Services /\ net[k].ver \in Versions
      BY <2>2 DEF TypeInv, NetNamed
    <3>2. templates'[<<sent.svc, sent.ver>>] = sent.template
      BY <1>2, <2>3, <3>1 DEF ServeSave, TypeInv, TypeOK
    <3>3. \A e \in Envs : files'[<<sent.svc, e>>] = sent.values[e]
      BY <1>2, <2>3, <3>1 DEF ServeSave
    <3> QED
      BY <2>2, <3>2, <3>3 DEF Stored
  <2>5. \A j \in Slots : net'[j].kind = "save" =>
           /\ j = k
           /\ net'[j].svc = net[k].svc /\ net'[j].ver = net[k].ver
           /\ net'[j].template = net[k].template /\ net'[j].values = net[k].values
    <3>1. \A j \in Slots \ {k} : net'[j] = net[j]
      BY <1>0, <2>2
    <3>2. /\ net'[k].svc = net[k].svc /\ net'[k].ver = net[k].ver
          /\ net'[k].template = net[k].template /\ net'[k].values = net[k].values
      BY <1>0, <2>2 DEF Requests
    <3> QED
      BY <2>3, <3>1, <3>2
  <2> QED
    BY <2>2, <2>3, <2>4, <2>5 DEF SaveInv
<1>3. ASSUME NEW k \in Slots, SaveArrives(k)
      PROVE  SaveInv'
  <2>1. SUFFICES ASSUME sent' # None
                 PROVE  SaveInv'
    BY DEF SaveInv
  <2>2. /\ UNCHANGED <<templates, files, sent>> /\ sent # None
        /\ net' = [net EXCEPT ![k] = Free]
        /\ net[k].kind = "save" /\ net[k].done
    BY <1>3, <2>1 DEF SaveArrives, AnswerOk
  <2>3. Stored(sent) /\ \A j \in Slots : net[j].kind = "save" => j = k
    BY <2>2 DEF SaveInv
  <2>4. \A j \in Slots : net'[j].kind # "save"
    BY <1>0, <2>2, <2>3
  <2>5. Stored(sent)'
    BY <2>2, <2>3 DEF Stored
  <2> QED
    BY <2>4, <2>5 DEF SaveInv
<1>4. ASSUME NEW k \in Slots, NEW r,
             net' = [net EXCEPT ![k] = r], r.kind # "save",
             UNCHANGED <<templates, files, sent>>, saved' => saved
      PROVE  SaveInv'
  <2>1. \A j \in Slots : net'[j].kind = "save" => net'[j] = net[j]
    BY <1>0, <1>4
  <2> QED
    BY <1>4, <2>1, SaveInvFrame
<1>5. ASSUME UNCHANGED <<templates, files, sent, net>>, saved' => saved
      PROVE  SaveInv'
  BY <1>5, SaveInvFrame
<1>6. ASSUME NEW k \in Slots, NEW v, LoadInto(k, v),
             UNCHANGED <<templates, files, sent>>, saved' => saved
      PROVE  SaveInv'
  <2> DEFINE r == Request("bundle", service, v, Blank, BlankValues)
  <2>1. net' = [net EXCEPT ![k] = r]
    BY <1>6 DEF LoadInto
  <2>2. r.kind # "save"
    BY DEF Request
  <2> HIDE DEF r
  <2> QED
    BY <1>4, <1>6, <2>1, <2>2
<1>7. CASE User
  <2>1. ASSUME NEW s \in Services, NEW k \in Slots, Select(s, k)
        PROVE  SaveInv'
    <3> DEFINE r == Request("versions", s, None, Blank, BlankValues)
    <3>1. net' = [net EXCEPT ![k] = r]
      BY <2>1 DEF Select
    <3>2. r.kind # "save"
      BY DEF Request
    <3> HIDE DEF r
    <3> QED
      BY <1>4, <2>1, <3>1, <3>2 DEF Select
  <2>2. ASSUME NEW v \in Versions, NEW k \in Slots, ChangeVersion(v, k)
        PROVE  SaveInv'
    BY <1>6, <2>2 DEF ChangeVersion
  <2>3. ASSUME \/ \E s \in Services : AddService(s)
               \/ \E e \in Envs : ChangeEnv(e)
               \/ TypeTemplate \/ TypeValue \/ TabTemplate \/ FormatValue
        PROVE  SaveInv'
    BY <1>5, <2>3 DEF AddService, ChangeEnv, TypeTemplate, TypeValue, TabTemplate,
                     FormatValue
  <2> QED
    BY <1>1, <1>7, <2>1, <2>2, <2>3 DEF User
<1>8. CASE ClearBadge
  BY <1>5, <1>8 DEF ClearBadge
<1>9. ASSUME NEW k \in Slots, VersionsArrive(k)
      PROVE  SaveInv'
  <2>1. CASE \E v : LoadInto(k, v)
    BY <1>6, <1>9, <2>1 DEF VersionsArrive
  <2>2. CASE net' = [net EXCEPT ![k] = Free]
    BY <1>0, <1>4, <1>9, <2>2 DEF VersionsArrive
  <2> QED
    BY <1>9, <2>1, <2>2 DEF VersionsArrive
<1>10. ASSUME NEW k \in Slots, VersionsFail(k) \/ BundleArrive(k) \/ SaveFails(k)
       PROVE  SaveInv'
  BY <1>0, <1>4, <1>10 DEF VersionsFail, BundleArrive, SaveFails
<1>11. ASSUME NEW k \in Slots, ServeLoad(k)
       PROVE  SaveInv'
  <2>1. \E r : net' = [net EXCEPT ![k] = r] /\ r.kind # "save"
    <3> DEFINE os == {v \in Versions : templates[<<net[k].svc, v>>] # None}
               t == TextOf(templates[<<net[k].svc, net[k].ver>>])
               vs == [e \in Envs |-> TextOf(files[<<net[k].svc, e>>])]
               a == [net[k] EXCEPT !.done = TRUE, !.options = os]
               b == [net[k] EXCEPT !.done = TRUE, !.template = t, !.values = vs]
    <3>1. net[k].kind # "save" /\ (net' = [net EXCEPT ![k] = a] \/ net' = [net EXCEPT ![k] = b])
      BY <1>11 DEF ServeLoad
    <3>2. a.kind = net[k].kind /\ b.kind = net[k].kind
      BY <1>0 DEF Requests
    <3> HIDE DEF a, b
    <3> QED
      BY <3>1, <3>2
  <2> QED
    BY <1>4, <1>11, <2>1 DEF ServeLoad
<1> QED
  BY <1>2, <1>3, <1>7, <1>8, <1>9, <1>10, <1>11 DEF Next, Answer

(* A "Saved!" that no other save disturbed is true of what the service     *)
(* stores.                                                                 *)
THEOREM BadgeTrue == Spec => []SavedIsStored
<1>1. Init => TypeInv /\ SaveInv
  BY TypeInit DEF Init, SaveInv
<1>2. TypeInv /\ SaveInv /\ [Next]_vars => (TypeInv /\ SaveInv)'
  <2> SUFFICES ASSUME TypeInv, SaveInv, [Next]_vars
               PROVE  SaveInv'
    BY TypeStep
  <2>1. CASE UNCHANGED vars
    BY <2>1 DEF vars, SaveInv, Stored
  <2> QED
    BY <2>1, SaveInvStep
<1>3. SaveInv => SavedIsStored
  BY DEF SaveInv, SavedIsStored, Stored
<1> QED
  BY <1>1, <1>2, <1>3, PTL DEF Spec

---------------------------------------------------------------------------
(* Why a calm page stores everything under its own name: at most one load  *)
(* is in flight, and it is for what the page names; what a request carries *)
(* belongs to the names it carries; and once no load is in flight, what    *)
(* the page shows belongs to what it names.                                *)
OwnValues(s) == {t \in Texts : \E v \in Versions : t \in OwnTexts(s, v)}

IsLoad(k) == net[k].kind \in {"versions", "bundle"}
Carries(k) == net[k].kind = "save" \/ (net[k].kind = "bundle" /\ net[k].done)

BucketOwn ==
  /\ \A s \in Services, v \in Versions : templates[<<s, v>>] \in OwnTexts(s, v) \cup {None}
  /\ \A s \in Services, e \in Envs : files[<<s, e>>] \in OwnValues(s) \cup {None}
LoadsMatch == \A k \in Slots : IsLoad(k) =>
  /\ net[k].svc = service
  /\ net[k].kind = "bundle" => net[k].ver = version
  /\ \A j \in Slots : IsLoad(j) => j = k
CarriedOwn == \A k \in Slots : Carries(k) =>
  /\ net[k].template \in OwnTexts(net[k].svc, net[k].ver)
  /\ \A e \in Envs : net[k].values[e] \in OwnValues(net[k].svc)
PageOwn == enabled /\ ~Loading =>
  /\ template \in OwnTexts(service, version)
  /\ \A e \in Envs : values[e] \in OwnValues(service)
  /\ value \in OwnValues(service)

OwnInv == calm => BucketOwn /\ LoadsMatch /\ CarriedOwn /\ PageOwn

LEMMA BlankOwn ==
  /\ \A s, v : Blank \in OwnTexts(s, v)
  /\ \A s : Blank \in OwnValues(s)
BY BlankType, NamesAssumption DEF OwnValues

LEMMA NewTextOwn ==
  ASSUME TypeInv, Event, enabled
  PROVE  NewText \in OwnTexts(service, version) /\ NewText \in OwnValues(service)
<1>1. service \in Services /\ version \in Versions /\ events + 1 \in 0 .. MaxEvents
  BY EventsAssumption DEF TypeInv, TypeOK, Event
<1>2. NewText \in OwnTexts(service, version)
  BY <1>1, OwnType DEF NewText
<1> QED
  BY <1>1, <1>2, OwnType DEF OwnValues

(* A slot is freed or given a save: no load appears.                       *)
LEMMA LoadsFrame ==
  ASSUME TypeInv, LoadsMatch, NEW k \in Slots, NEW r, net' = [net EXCEPT ![k] = r],
         r.kind \notin {"versions", "bundle"}, UNCHANGED <<service, version>>
  PROVE  LoadsMatch'
<1>1. \A j \in Slots : net'[j] = IF j = k THEN r ELSE net[j]
  BY DEF TypeInv, TypeOK
<1> QED
  BY <1>1 DEF LoadsMatch, IsLoad

(* The only load in flight is answered or replaced.                        *)
LEMMA OnlyLoad ==
  ASSUME TypeInv, NEW k \in Slots, NEW r, net' = [net EXCEPT ![k] = r],
         \A j \in Slots \ {k} : ~IsLoad(j),
         r.kind \in {"versions", "bundle"} => r.svc = service',
         r.kind = "bundle" => r.ver = version'
  PROVE  /\ LoadsMatch'
         /\ Loading' <=> r.kind \in {"versions", "bundle"}
<1>1. \A j \in Slots : net'[j] = IF j = k THEN r ELSE net[j]
  BY DEF TypeInv, TypeOK
<1> QED
  BY <1>1 DEF LoadsMatch, IsLoad, Loading

LEMMA CarriedFrame ==
  ASSUME TypeInv, CarriedOwn, NEW k \in Slots, NEW r, net' = [net EXCEPT ![k] = r],
         r.kind = "save" \/ (r.kind = "bundle" /\ r.done) =>
            /\ r.template \in OwnTexts(r.svc, r.ver)
            /\ \A e \in Envs : r.values[e] \in OwnValues(r.svc)
  PROVE  CarriedOwn'
<1>1. \A j \in Slots : net'[j] = IF j = k THEN r ELSE net[j]
  BY DEF TypeInv, TypeOK
<1> QED
  BY <1>1 DEF CarriedOwn, Carries

LEMMA ShowOwn ==
  ASSUME NEW t, NEW vs \in [Envs -> Texts], Show(t, vs),
         t \in OwnTexts(service', version'),
         \A e \in Envs : vs[e] \in OwnValues(service')
  PROVE  PageOwn'
BY NamesAssumption DEF Show, PageOwn

LEMMA ShowBlankOwn == Show(Blank, BlankValues) => PageOwn'
BY ShowOwn, BlankOwn, BlankType

LEMMA FreeKind == Free.kind = "free"
BY DEF Free, Request

LEMMA CalmLoads ==
  ASSUME calm', Event
  PROVE  calm /\ \A k \in Slots : ~IsLoad(k)
BY DEF Event, Loading, IsLoad

LEMMA OwnInit == Init => OwnInv
<1> SUFFICES ASSUME Init PROVE OwnInv
  OBVIOUS
<1>1. \A s \in Services, v \in Versions : <<s, v, 0>> \in OwnTexts(s, v)
  BY OwnType, EventsAssumption
<1>2. \A s \in Services, e \in Envs : files[<<s, e>>] = <<s, DefaultVersion, 0>>
  BY DEF Init
<1>3. \A s \in Services : <<s, DefaultVersion, 0>> \in OwnValues(s)
  BY <1>1, OwnType, NamesAssumption DEF OwnValues
<1>4. \A s \in Services, v \in Versions : templates[<<s, v>>] \in OwnTexts(s, v) \cup {None}
  BY <1>1 DEF Init
<1>5. BucketOwn
  BY <1>2, <1>3, <1>4 DEF BucketOwn
<1>6. ~enabled /\ \A k \in Slots : net[k].kind = "free"
  BY FreeKind DEF Init
<1> QED
  BY <1>5, <1>6 DEF OwnInv, LoadsMatch, CarriedOwn, PageOwn, IsLoad, Carries

LEMMA BucketFrame ==
  ASSUME BucketOwn, UNCHANGED <<templates, files>>
  PROVE  BucketOwn'
BY DEF BucketOwn

LEMMA OwnUserStep ==
  ASSUME TypeInv, OwnInv, User
  PROVE  OwnInv'
<1> SUFFICES ASSUME calm' PROVE OwnInv'
  BY DEF OwnInv
<1>0. /\ Event /\ UNCHANGED <<templates, files>>
  BY DEF User, AddService, Select, ChangeVersion, ChangeEnv, TypeTemplate, TypeValue,
         TabTemplate, FormatValue, Save
<1>1. /\ \A k \in Slots : ~IsLoad(k)
      /\ ~Loading /\ BucketOwn /\ LoadsMatch /\ CarriedOwn /\ PageOwn
  BY <1>0, CalmLoads DEF OwnInv, Loading, IsLoad
<1>2. BucketOwn'
  BY <1>0, <1>1, BucketFrame
<1>3. ASSUME UNCHANGED net
      PROVE  LoadsMatch' /\ CarriedOwn' /\ ~Loading'
  <2>1. \A k \in Slots : ~IsLoad(k)'
    BY <1>1, <1>3 DEF IsLoad
  <2>2. CarriedOwn'
    BY <1>1, <1>3 DEF CarriedOwn, Carries
  <2> QED
    BY <2>1, <2>2 DEF LoadsMatch, Loading, IsLoad
<1>4. ASSUME NEW s \in Services, AddService(s)
      PROVE  OwnInv'
  BY <1>2, <1>3, <1>4, ShowBlankOwn DEF AddService, OwnInv
<1>5. ASSUME NEW k \in Slots, NEW r, net' = [net EXCEPT ![k] = r],
             r.kind \in {"versions", "bundle"}, ~r.done, r.svc = service',
             r.kind = "bundle" => r.ver = version'
      PROVE  OwnInv'
  <2>1. LoadsMatch' /\ Loading'
    BY <1>1, <1>5, OnlyLoad
  <2>2. CarriedOwn'
    BY <1>1, <1>5, CarriedFrame
  <2> QED
    BY <1>2, <2>1, <2>2 DEF OwnInv, PageOwn
<1>6. ASSUME NEW s \in Services, NEW k \in Slots, Select(s, k)
      PROVE  OwnInv'
  <2> DEFINE r == Request("versions", s, None, Blank, BlankValues)
  <2>1. net' = [net EXCEPT ![k] = r] /\ service' = s
    BY <1>6 DEF Select
  <2>2. r.kind = "versions" /\ ~r.done /\ r.svc = s
    BY DEF Request
  <2> HIDE DEF r
  <2> QED
    BY <1>5, <2>1, <2>2
<1>7. ASSUME NEW v \in Versions, NEW k \in Slots, ChangeVersion(v, k)
      PROVE  OwnInv'
  <2> DEFINE r == Request("bundle", service, v, Blank, BlankValues)
  <2>1. net' = [net EXCEPT ![k] = r] /\ service' = service /\ version' = v
    BY <1>7 DEF ChangeVersion, LoadInto, NamesLoaded
  <2>2. r.kind = "bundle" /\ ~r.done /\ r.svc = service /\ r.ver = v
    BY DEF Request
  <2> HIDE DEF r
  <2> QED
    BY <1>5, <2>1, <2>2
<1>8. ASSUME NEW e \in Envs, ChangeEnv(e)
      PROVE  OwnInv'
  <2>1. /\ UNCHANGED <<net, service, version, template, enabled>>
        /\ value' = values[e]
        /\ \A x \in Envs : values'[x] \in {values[x], value}
    BY <1>8 DEF ChangeEnv, Flushed, TypeInv, TypeOK
  <2>2. PageOwn'
    BY <1>1, <2>1 DEF PageOwn
  <2> QED
    BY <1>2, <1>3, <2>1, <2>2 DEF OwnInv
<1>9. CASE TypeTemplate \/ TabTemplate
  <2>1. /\ UNCHANGED <<net, service, version, values, value, enabled>>
        /\ template' = NewText
    BY <1>9 DEF TypeTemplate, TabTemplate
  <2>2. PageOwn'
    BY <1>0, <1>1, <2>1, NewTextOwn DEF PageOwn
  <2> QED
    BY <1>2, <1>3, <2>1, <2>2 DEF OwnInv
<1>10. CASE TypeValue \/ FormatValue
  <2>1. /\ UNCHANGED <<net, service, version, template, enabled>>
        /\ value' = NewText
        /\ \A x \in Envs : values'[x] \in {values[x], NewText}
    BY <1>10 DEF TypeValue, FormatValue, TypeInv, TypeOK
  <2>2. PageOwn'
    BY <1>0, <1>1, <2>1, NewTextOwn DEF PageOwn
  <2> QED
    BY <1>2, <1>3, <2>1, <2>2 DEF OwnInv
<1>11. ASSUME NEW k \in Slots, Save(k)
       PROVE  OwnInv'
  <2> DEFINE r == Request("save", service, version, template, values')
  <2>1. /\ net' = [net EXCEPT ![k] = r]
        /\ enabled /\ UNCHANGED <<service, version, template, value, enabled>>
        /\ \A x \in Envs : values'[x] \in {values[x], value}
    BY <1>11 DEF Save, Flushed, TypeInv, TypeOK
  <2>2. /\ r.kind = "save" /\ r.svc = service /\ r.ver = version
        /\ r.template = template /\ r.values = values'
    BY DEF Request
  <2> HIDE DEF r
  <2>3. template \in OwnTexts(service, version) /\ \A x \in Envs : values'[x] \in OwnValues(service)
    BY <1>1, <2>1 DEF PageOwn
  <2>4. LoadsMatch'
    BY <1>1, <2>1, <2>2, LoadsFrame
  <2>5. CarriedOwn'
    BY <1>1, <2>1, <2>2, <2>3, CarriedFrame
  <2>6. PageOwn'
    BY <1>1, <2>1, <2>3 DEF PageOwn
  <2> QED
    BY <1>2, <2>4, <2>5, <2>6 DEF OwnInv
<1> QED
  BY <1>4, <1>6, <1>7, <1>8, <1>9, <1>10, <1>11 DEF User

LEMMA OwnPageStep ==
  ASSUME TypeInv, OwnInv, NEW k \in Slots, Answer(k)
  PROVE  OwnInv'
<1> SUFFICES ASSUME calm' PROVE OwnInv'
  BY DEF OwnInv
<1>0. /\ net[k] \in Requests /\ UNCHANGED <<templates, files, service>>
      /\ calm
  BY DEF TypeInv, TypeOK, Answer, VersionsArrive, VersionsFail, BundleArrive, SaveArrives,
         SaveFails
<1>1. BucketOwn /\ LoadsMatch /\ CarriedOwn /\ PageOwn
  BY <1>0 DEF OwnInv
<1>2. BucketOwn'
  BY <1>0, <1>1, BucketFrame
<1>3. ASSUME net' = [net EXCEPT ![k] = Free]
      PROVE  CarriedOwn'
  BY <1>1, <1>3, FreeKind, CarriedFrame
<1>4. ASSUME net' = [net EXCEPT ![k] = Free], IsLoad(k)
      PROVE  LoadsMatch' /\ ~Loading'
  <2>1. \A j \in Slots \ {k} : ~IsLoad(j)
    BY <1>1, <1>4 DEF LoadsMatch
  <2> QED
    BY <1>4, <2>1, FreeKind, OnlyLoad
<1>5. CASE VersionsArrive(k)
  <2>1. IsLoad(k) /\ net[k].svc = service
    BY <1>1, <1>5 DEF VersionsArrive, IsLoad, LoadsMatch
  <2>2. CASE net[k].options # {}
    <3>1. PICK v : LoadInto(k, v)
      BY <1>5, <2>2 DEF VersionsArrive
    <3> DEFINE r == Request("bundle", service, v, Blank, BlankValues)
    <3>2. net' = [net EXCEPT ![k] = r] /\ version' = v
      BY <3>1 DEF LoadInto, NamesLoaded
    <3>3. r.kind = "bundle" /\ ~r.done /\ r.svc = service /\ r.ver = v
      BY DEF Request
    <3> HIDE DEF r
    <3>4. \A j \in Slots \ {k} : ~IsLoad(j)
      BY <1>1, <2>1 DEF LoadsMatch
    <3>5. LoadsMatch' /\ Loading'
      BY <1>0, <3>2, <3>3, <3>4, OnlyLoad
    <3>6. CarriedOwn'
      BY <1>1, <3>2, <3>3, CarriedFrame
    <3> QED
      BY <1>2, <3>5, <3>6 DEF OwnInv, PageOwn
  <2>3. CASE net[k].options = {}
    <3>1. Show(Blank, BlankValues) /\ net' = [net EXCEPT ![k] = Free]
      BY <1>5, <2>3 DEF VersionsArrive
    <3> QED
      BY <1>2, <1>3, <1>4, <2>1, <3>1, ShowBlankOwn DEF OwnInv
  <2> QED
    BY <2>2, <2>3
<1>6. CASE VersionsFail(k)
  BY <1>6 DEF VersionsFail
<1>7. CASE BundleArrive(k)
  <2>1. /\ IsLoad(k) /\ net' = [net EXCEPT ![k] = Free]
        /\ net[k].svc = service /\ net[k].ver = version /\ version' = version
    BY <1>1, <1>7 DEF BundleArrive, IsLoad, LoadsMatch
  <2>2. PageOwn'
    <3>1. CASE net[k].done /\ Show(net[k].template, net[k].values)
      <4>1. /\ net[k].template \in OwnTexts(service', version')
            /\ \A e \in Envs : net[k].values[e] \in OwnValues(service')
        BY <1>0, <1>1, <1>7, <2>1, <3>1 DEF CarriedOwn, Carries, BundleArrive
      <4>2. net[k].values \in [Envs -> Texts]
        BY <1>0, FieldType
      <4> QED
        BY <3>1, <4>1, <4>2, ShowOwn
    <3> QED
      BY <1>7, <3>1, ShowBlankOwn DEF BundleArrive
  <2> QED
    BY <1>2, <1>3, <1>4, <2>1, <2>2 DEF OwnInv
<1>8. CASE SaveArrives(k) \/ SaveFails(k)
  <2>1. /\ net[k].kind = "save" /\ net' = [net EXCEPT ![k] = Free]
        /\ UNCHANGED <<service, version, template, values, value, enabled>>
    BY <1>8 DEF SaveArrives, SaveFails
  <2>2. LoadsMatch'
    BY <1>1, <2>1, FreeKind, LoadsFrame
  <2>3. Loading' <=> Loading
    <3>1. \A j \in Slots : net'[j] = IF j = k THEN Free ELSE net[j]
      BY <2>1 DEF TypeInv, TypeOK
    <3> QED
      BY <2>1, <3>1, FreeKind DEF Loading
  <2>4. PageOwn'
    BY <1>1, <2>1, <2>3 DEF PageOwn
  <2> QED
    BY <1>2, <1>3, <2>1, <2>2, <2>4 DEF OwnInv
<1> QED
  BY <1>5, <1>6, <1>7, <1>8 DEF Answer

LEMMA OwnServerStep ==
  ASSUME TypeInv, OwnInv, NEW k \in Slots, ServeLoad(k) \/ ServeSave(k)
  PROVE  OwnInv'
<1> SUFFICES ASSUME calm' PROVE OwnInv'
  BY DEF OwnInv
<1>0. /\ net[k] \in Requests
      /\ UNCHANGED <<service, version, template, values, value, enabled>>
      /\ calm
  BY DEF TypeInv, TypeOK, ServeLoad, ServeSave
<1>1. BucketOwn /\ LoadsMatch /\ CarriedOwn /\ PageOwn
  BY <1>0 DEF OwnInv
<1>2. ASSUME NEW r, net' = [net EXCEPT ![k] = r],
             r.kind = net[k].kind, r.svc = net[k].svc, r.ver = net[k].ver
      PROVE  LoadsMatch' /\ PageOwn'
  <2>1. \A j \in Slots : net'[j] = IF j = k THEN r ELSE net[j]
    BY <1>2 DEF TypeInv, TypeOK
  <2>2. \A j \in Slots : /\ net'[j].kind = net[j].kind
                         /\ net'[j].svc = net[j].svc /\ net'[j].ver = net[j].ver
    BY <1>2, <2>1
  <2>3. LoadsMatch'
    BY <1>0, <1>1, <2>2 DEF LoadsMatch, IsLoad
  <2>4. Loading' <=> Loading
    BY <2>2 DEF Loading
  <2> QED
    BY <1>0, <1>1, <2>3, <2>4 DEF PageOwn
<1>3. CASE ServeLoad(k)
  <2>1. BucketOwn' /\ net[k].svc \in Services
        /\ (net[k].kind = "bundle" => net[k].ver \in Versions)
    BY <1>1, <1>3, BucketFrame DEF ServeLoad, TypeInv, NetNamed
  <2>2. CASE net[k].kind = "versions"
    <3> DEFINE os == {v \in Versions : templates[<<net[k].svc, v>>] # None}
               r == [net[k] EXCEPT !.done = TRUE, !.options = os]
    <3>1. net' = [net EXCEPT ![k] = r]
      BY <1>3, <2>2 DEF ServeLoad
    <3>2. r.kind = net[k].kind /\ r.svc = net[k].svc /\ r.ver = net[k].ver
      BY <1>0 DEF Requests
    <3> HIDE DEF r
    <3>3. CarriedOwn'
      BY <1>1, <2>2, <3>1, <3>2, CarriedFrame
    <3> QED
      BY <1>2, <2>1, <3>1, <3>2, <3>3 DEF OwnInv
  <2>3. CASE net[k].kind = "bundle"
    <3> DEFINE t == TextOf(templates[<<net[k].svc, net[k].ver>>])
               vs == [e \in Envs |-> TextOf(files[<<net[k].svc, e>>])]
               r == [net[k] EXCEPT !.done = TRUE, !.template = t, !.values = vs]
    <3>1. net' = [net EXCEPT ![k] = r]
      BY <1>3, <2>3 DEF ServeLoad
    <3>2. /\ r.kind = net[k].kind /\ r.svc = net[k].svc /\ r.ver = net[k].ver
          /\ r.template = t /\ r.values = vs
      BY <1>0 DEF Requests
    <3>3. t \in OwnTexts(net[k].svc, net[k].ver)
      BY <1>1, <2>1, <2>3, BlankOwn DEF BucketOwn, TextOf
    <3>4. \A e \in Envs : vs[e] \in OwnValues(net[k].svc)
      BY <1>1, <2>1, BlankOwn DEF BucketOwn, TextOf
    <3> HIDE DEF r, t, vs
    <3>5. CarriedOwn'
      BY <1>1, <3>1, <3>2, <3>3, <3>4, CarriedFrame
    <3> QED
      BY <1>2, <2>1, <3>1, <3>2, <3>5 DEF OwnInv
  <2> QED
    BY <1>3, <2>2, <2>3 DEF ServeLoad
<1>4. CASE ServeSave(k)
  <2> DEFINE r == [net[k] EXCEPT !.done = TRUE]
  <2>1. net' = [net EXCEPT ![k] = r] /\ net[k].kind = "save"
    BY <1>4 DEF ServeSave
  <2>2. /\ r.kind = net[k].kind /\ r.svc = net[k].svc /\ r.ver = net[k].ver
        /\ r.template = net[k].template /\ r.values = net[k].values
    BY <1>0 DEF Requests
  <2> HIDE DEF r
  <2>3. /\ net[k].svc \in Services /\ net[k].ver \in Versions
        /\ net[k].template \in OwnTexts(net[k].svc, net[k].ver)
        /\ \A e \in Envs : net[k].values[e] \in OwnValues(net[k].svc)
    BY <1>1, <2>1 DEF CarriedOwn, Carries, TypeInv, NetNamed
  <2>4. CarriedOwn'
    BY <1>1, <2>1, <2>2, <2>3, CarriedFrame
  <2>5. \A s \in Services, v \in Versions : templates'[<<s, v>>] =
           IF s = net[k].svc /\ v = net[k].ver THEN net[k].template ELSE templates[<<s, v>>]
    BY <1>4 DEF ServeSave, TypeInv, TypeOK
  <2>6. \A s \in Services, e \in Envs : files'[<<s, e>>] =
           IF s = net[k].svc THEN net[k].values[e] ELSE files[<<s, e>>]
    BY <1>4 DEF ServeSave
  <2>7. BucketOwn'
    BY <1>1, <2>3, <2>5, <2>6 DEF BucketOwn
  <2> QED
    BY <1>2, <2>1, <2>2, <2>4, <2>7 DEF OwnInv
<1> QED
  BY <1>3, <1>4

LEMMA OwnStep == TypeInv /\ OwnInv /\ [Next]_vars => OwnInv'
<1> SUFFICES ASSUME TypeInv, OwnInv, [Next]_vars PROVE OwnInv'
  OBVIOUS
<1>1. CASE User
  BY <1>1, OwnUserStep
<1>2. CASE ClearBadge \/ UNCHANGED vars
  <2>1. UNCHANGED <<templates, files, service, version, template, values, value, enabled,
                    net, calm>>
    BY <1>2 DEF ClearBadge, vars
  <2> QED
    BY <2>1 DEF OwnInv, BucketOwn, LoadsMatch, CarriedOwn, PageOwn, IsLoad, Carries, Loading
<1>3. ASSUME NEW k \in Slots, Answer(k) \/ ServeLoad(k) \/ ServeSave(k)
      PROVE  OwnInv'
  BY <1>3, OwnPageStep, OwnServerStep
<1> QED
  BY <1>1, <1>2, <1>3 DEF Next

(* As long as no event comes between a load and its answer, and no list of *)
(* versions fails, everything is stored under the names it was typed or    *)
(* loaded for.                                                             *)
THEOREM OwnNames == Spec => []StoredUnderOwnName
<1>1. TypeInv /\ OwnInv => StoredUnderOwnName
  BY DEF OwnInv, BucketOwn, OwnValues, StoredUnderOwnName
<1> QED
  BY <1>1, TypeInit, TypeStep, OwnInit, OwnStep, PTL DEF Spec
=============================================================================
