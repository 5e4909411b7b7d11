---------------------------- MODULE BundleStore ----------------------------
(***************************************************************************)
(* The config service's handlers over its S3 bucket (configsvc/cmd/main.go *)
(* 93-335), for one service: PUT bundle writes the template of one version *)
(* and then, one object at a time and in Go's random map order, the values *)
(* of each environment, which all versions share; GET render and GET       *)
(* bundle read the same objects one at a time.  Nothing makes either       *)
(* atomic, so requests interleave at every S3 call.  An attempt at a write *)
(* that the AWS client gave up, or sent again, may still arrive at S3 long *)
(* after: it is late.                                                      *)
(*                                                                         *)
(* The content a PUT writes is the name of that PUT: what matters is whose *)
(* content an object holds.  Default stands for the text the code puts in  *)
(* the place of what it could not read.                                    *)
(***************************************************************************)
EXTENDS Naturals, FiniteSets

CONSTANTS
  Versions,   \* template versions
  Envs,       \* environments with values, Base among them
  Base,       \* the environment all others extend
  Puts,       \* PUT requests
  Gets,       \* GET render and GET bundle requests
  None,       \* no such object
  Default,    \* "{}" or an empty template
  MaxLate     \* bound: late writes at a time

ASSUME BaseAssumption == Base \in Envs
ASSUME DistinctAssumption ==
  /\ None \notin Puts
  /\ Default \notin Puts
  /\ None # Default

Template(v) == <<"template", v>>
Values(e) == <<"values", e>>
Objects == {Template(v) : v \in Versions} \cup {Values(e) : e \in Envs}

VARIABLES
  store,  \* the bucket: whose content each object holds
  put,    \* the PUT requests
  get,    \* the GET requests
  late,   \* the late writes, as <<object, PUT>>
  solo    \* history: the last PUT, if nothing of another ran or was written
          \* since it began, or None

vars == <<store, put, get, late, solo>>

PutRecords == [st : {"new", "template", "values", "ok", "failed"},
               version : Versions, envs : SUBSET Envs, left : SUBSET Envs]

(* got: what each piece of the answer holds; lost: history, a read failed  *)
(* and the request went on; quiet: history, no PUT ran and no late write   *)
(* came since it began.                                                    *)
GetRecords == [st : {"new", "template", "list", "values", "ok", "notfound", "failed"},
               kind : {"render", "bundle"}, version : Versions, env : Envs,
               left : SUBSET Envs, template : Puts \cup {Default},
               got : [Envs -> Puts \cup {Default}],
               lost : BOOLEAN, quiet : BOOLEAN]

TypeOK ==
  /\ store \in [Objects -> Puts \cup {None}]
  /\ put \in [Puts -> PutRecords]
  /\ get \in [Gets -> GetRecords]
  /\ late \subseteq Objects \X Puts
  /\ solo \in Puts \cup {None}

Init ==
  /\ store = [o \in Objects |-> None]
  /\ put \in [Puts -> {[st |-> "new", version |-> v, envs |-> es, left |-> es] :
                         v \in Versions, es \in SUBSET Envs}]
  /\ get \in [Gets -> {[st |-> "new", kind |-> k, version |-> v, env |-> e,
                        left |-> {}, template |-> Default,
                        got |-> [x \in Envs |-> Default],
                        lost |-> FALSE, quiet |-> FALSE] :
                         k \in {"render", "bundle"}, v \in Versions, e \in Envs}]
  /\ late = {}
  /\ solo = None

Writing(p) == put[p].st \in {"template", "values"}

---------------------------------------------------------------------------
(* The body is decoded: the bundle names a template and some values. *)
BeginPut(p) ==
  /\ put[p].st = "new"
  /\ put' = [put EXCEPT ![p].st = "template"]
  /\ solo' = IF \E q \in Puts : Writing(q) THEN None ELSE p
  /\ get' = [r \in Gets |-> [get[r] EXCEPT !.quiet = FALSE]]
  /\ UNCHANGED <<store, late>>

(* One PutObject, and the attempt at it that may be late. *)
Written(o, p) == [store EXCEPT ![o] = p]

MayBeLate(o, p) ==
  \/ UNCHANGED late
  \/ Cardinality(late) < MaxLate /\ late' = late \cup {<<o, p>>}

WriteTemplate(p) ==
  /\ put[p].st = "template"
  /\ store' = Written(Template(put[p].version), p)
  /\ MayBeLate(Template(put[p].version), p)
  /\ put' = [put EXCEPT ![p].st = "values"]
  /\ UNCHANGED <<get, solo>>

(* An S3 error, the object written, or not, or late: 500. *)
WriteTemplateFails(p) ==
  /\ put[p].st = "template"
  /\ store' \in {store, Written(Template(put[p].version), p)}
  /\ MayBeLate(Template(put[p].version), p)
  /\ put' = [put EXCEPT ![p].st = "failed"]
  /\ UNCHANGED <<get, solo>>

(* The loop over bundle.Values follows the template. *)
AnyOrder(p) == Writing(p)
TemplateDone(p) == put[p].st = "values"

WriteValues(p, e) ==
  /\ TemplateDone(p)
  /\ e \in put[p].left
  /\ store' = Written(Values(e), p)
  /\ MayBeLate(Values(e), p)
  /\ put' = [put EXCEPT ![p].left = @ \ {e}]
  /\ UNCHANGED <<get, solo>>

(* The first failure ends the request: 500, nothing is undone. *)
WriteValuesFails(p, e) ==
  /\ TemplateDone(p)
  /\ e \in put[p].left
  /\ store' \in {store, Written(Values(e), p)}
  /\ MayBeLate(Values(e), p)
  /\ put' = [put EXCEPT ![p].st = "failed"]
  /\ UNCHANGED <<get, solo>>

OneLeft(p) == \A e, f \in put[p].left : e = f
NoneLeft(p) == put[p].left = {}

ReplyPut(p) ==
  /\ put[p].st = "values"
  /\ NoneLeft(p)
  /\ put' = [put EXCEPT ![p].st = "ok"]
  /\ UNCHANGED <<store, get, late, solo>>

(* S3 handles a late write. *)
WriteLate(o, p) ==
  /\ <<o, p>> \in late
  /\ store' = Written(o, p)
  /\ late' = late \ {<<o, p>>}
  /\ solo' = IF solo = p THEN solo ELSE None
  /\ get' = [r \in Gets |-> [get[r] EXCEPT !.quiet = FALSE]]
  /\ UNCHANGED put

---------------------------------------------------------------------------
(* fetchFromS3, then what stands for an object that does not exist. *)
FetchedRaw(o) == store[o]
Fetched(o) == IF store[o] = None THEN Default ELSE store[o]

BeginGet(r) ==
  /\ get[r].st = "new"
  /\ get' = [get EXCEPT ![r] = [@ EXCEPT !.st = "template",
                                        !.quiet = \A p \in Puts : ~Writing(p)]]
  /\ UNCHANGED <<store, put, late, solo>>

EnvOnly(r) == {get[r].env}
RenderNeeds(r) == {Base, get[r].env}

(* Render: the template or 404; then the base and the environment.         *)
FetchTemplate(r) ==
  /\ get[r].st = "template"
  /\ get[r].kind = "render"
  /\ get' = [get EXCEPT ![r] =
                IF store[Template(get[r].version)] = None
                  THEN [@ EXCEPT !.st = "notfound"]
                  ELSE [@ EXCEPT !.st = "values", !.left = RenderNeeds(r),
                                 !.template = store[Template(get[r].version)]]]
  /\ UNCHANGED <<store, put, late, solo>>

(* Any S3 error is a 404 too. *)
FetchTemplateFails(r) ==
  /\ get[r].st = "template"
  /\ get[r].kind = "render"
  /\ get' = [get EXCEPT ![r] = [@ EXCEPT !.st = "notfound", !.lost = TRUE]]
  /\ UNCHANGED <<store, put, late, solo>>

(* Bundle: the template or its default; then the value files there are.    *)
LoadTemplate(r) ==
  /\ get[r].st = "template"
  /\ get[r].kind = "bundle"
  /\ get' = [get EXCEPT ![r] = [@ EXCEPT !.st = "list",
                                        !.template = Fetched(Template(get[r].version))]]
  /\ UNCHANGED <<store, put, late, solo>>

LoadTemplateFails(r) ==
  /\ get[r].st = "template"
  /\ get[r].kind = "bundle"
  /\ get' = [get EXCEPT ![r] = [@ EXCEPT !.st = "list", !.lost = TRUE]]
  /\ UNCHANGED <<store, put, late, solo>>

List(r) ==
  /\ get[r].st = "list"
  /\ get' = [get EXCEPT ![r] = [@ EXCEPT !.st = "values",
                                        !.left = {e \in Envs : store[Values(e)] # None}]]
  /\ UNCHANGED <<store, put, late, solo>>

ListFails(r) ==
  /\ get[r].st = "list"
  /\ get' = [get EXCEPT ![r] = [@ EXCEPT !.st = "values", !.lost = TRUE]]
  /\ UNCHANGED <<store, put, late, solo>>

(* Base comes first in a render; a bundle's files come by their names.     *)
InOrder(r, e) == get[r].kind = "render" => e = Base \/ Base \notin get[r].left

FetchValues(r, e) ==
  /\ get[r].st = "values"
  /\ e \in get[r].left
  /\ InOrder(r, e)
  /\ get' = [get EXCEPT ![r] = [@ EXCEPT !.left = get[r].left \ {e},
                                        !.got = [get[r].got EXCEPT ![e] = Fetched(Values(e))]]]
  /\ UNCHANGED <<store, put, late, solo>>

FetchValuesFails(r, e) ==
  /\ get[r].st = "values"
  /\ e \in get[r].left
  /\ InOrder(r, e)
  /\ get' = [get EXCEPT ![r] = [@ EXCEPT !.left = get[r].left \ {e}, !.lost = TRUE]]
  /\ UNCHANGED <<store, put, late, solo>>

ReplyGet(r) ==
  /\ get[r].st = "values"
  /\ get[r].left = {}
  /\ get' = [get EXCEPT ![r].st = "ok"]
  /\ UNCHANGED <<store, put, late, solo>>

(* The values do not merge, or the template does not evaluate: 500. *)
RenderFails(r) ==
  /\ get[r].st = "values"
  /\ get[r].kind = "render"
  /\ get[r].left = {}
  /\ get' = [get EXCEPT ![r].st = "failed"]
  /\ UNCHANGED <<store, put, late, solo>>

---------------------------------------------------------------------------
PutStep(p) ==
  \/ BeginPut(p)
  \/ WriteTemplate(p)
  \/ WriteTemplateFails(p)
  \/ \E e \in Envs : WriteValues(p, e) \/ WriteValuesFails(p, e)
  \/ ReplyPut(p)

GetStep(r) ==
  \/ BeginGet(r)
  \/ FetchTemplate(r)
  \/ FetchTemplateFails(r)
  \/ LoadTemplate(r)
  \/ LoadTemplateFails(r)
  \/ List(r)
  \/ ListFails(r)
  \/ \E e \in Envs : FetchValues(r, e) \/ FetchValuesFails(r, e)
  \/ ReplyGet(r)
  \/ RenderFails(r)

Next ==
  \/ \E p \in Puts : PutStep(p)
  \/ \E o \in Objects, p \in Puts : WriteLate(o, p)
  \/ \E r \in Gets : GetStep(r)

Spec == Init /\ [][Next]_vars

---------------------------------------------------------------------------
(* A PUT that ran alone and was answered with success is whole until       *)
(* another begins or a late write of another comes, whatever of its own    *)
(* comes late: its template and every environment it named hold what it    *)
(* sent (main.go:209-227).                                                 *)
AckedIsWhole ==
  \A p \in Puts : solo = p /\ put[p].st = "ok" =>
     /\ store[Template(put[p].version)] = p
     /\ \A e \in put[p].envs : store[Values(e)] = p

(* A PUT that ran alone never leaves values behind without the template    *)
(* they belong to, wherever it failed and whatever of it came late         *)
(* (main.go:209-222: template first).                                      *)
TemplateBeforeValues ==
  \A p \in Puts : solo = p /\ (\E e \in Envs : store[Values(e)] = p) =>
     store[Template(put[p].version)] = p

(* A GET during which no PUT ran, no late write came and no read failed    *)
(* answers what the bucket holds: the template, the base and the           *)
(* environment asked for, or for a bundle every environment there is       *)
(* (main.go:138-175, 287-335).                                             *)
AnswerIsCurrent ==
  \A r \in Gets : get[r].quiet /\ ~get[r].lost =>
     /\ get[r].st = "notfound" => store[Template(get[r].version)] = None
     /\ get[r].st = "ok" =>
          /\ get[r].template = Fetched(Template(get[r].version))
          /\ \A e \in IF get[r].kind = "bundle" THEN Envs ELSE {Base, get[r].env} :
                get[r].got[e] = Fetched(Values(e))

(* config/README.md:3: "Versioning: App can choose to use a specific       *)
(* version of configuration data": what an existing version renders for an *)
(* environment changes only by a PUT to that version, or late by one.      *)
Rendered(v, e) == <<store[Template(v)], store[Values(Base)], store[Values(e)]>>

VersionIsFixed ==
  [][\A v \in Versions, e \in Envs :
       store[Template(v)] # None /\ Rendered(v, e)' # Rendered(v, e) =>
          \E p \in Puts :
             put[p].version = v /\ (Writing(p) \/ p \in {w[2] : w \in late})]_vars
============================================================================
