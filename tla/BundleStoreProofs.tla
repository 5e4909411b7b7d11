------------------------- MODULE BundleStoreProofs -------------------------
(***************************************************************************)
(* What holds of the config service for every set of versions,             *)
(* environments and requests.                                              *)
(***************************************************************************)
EXTENDS BundleStore, TLAPS

(* Nobody else writes while the lone PUT is the last that began. *)
Alone == \A p, q \in Puts : solo = p /\ Writing(q) => q = p

(* A PUT that has written nothing has all its environments to write, and   *)
(* nothing holds its content, nor will.                                    *)
Fresh ==
  \A p \in Puts : put[p].st \in {"new", "template"} =>
     /\ put[p].left = put[p].envs
     /\ \A o \in Objects : store[o] # p /\ <<o, p>> \notin late

(* What the lone PUT has written is still there, and it has written all    *)
(* that is not left.                                                       *)
Kept ==
  \A p \in Puts : solo = p /\ put[p].st \in {"values", "ok"} =>
     /\ store[Template(put[p].version)] = p
     /\ \A e \in put[p].envs \ put[p].left : store[Values(e)] = p
     /\ put[p].st = "ok" => put[p].left = {}

(* Late values of the lone PUT come after its template.                    *)
Behind ==
  \A p \in Puts : solo = p /\ (\E e \in Envs : <<Values(e), p>> \in late) =>
     store[Template(put[p].version)] = p

PutInv == Alone /\ Fresh /\ Kept /\ Behind /\ TemplateBeforeValues

---------------------------------------------------------------------------
LEMMA ObjectsDistinct ==
  /\ \A v \in Versions : Template(v) \in Objects
  /\ \A e \in Envs : Values(e) \in Objects
  /\ \A v, e : Template(v) # Values(e)
  /\ \A v, w : Template(v) = Template(w) => v = w
  /\ \A e, f : Values(e) = Values(f) => e = f
BY DEF Objects, Template, Values

LEMMA FetchedType ==
  ASSUME TypeOK, NEW o \in Objects
  PROVE  Fetched(o) \in Puts \cup {Default}
BY DEF TypeOK, Fetched

(* A request's record keeps its type when one step of it is taken.         *)
LEMMA PutRecordType ==
  ASSUME NEW b \in PutRecords,
         NEW s \in {"new", "template", "values", "ok", "failed"}, NEW es \in SUBSET Envs
  PROVE  /\ [b EXCEPT !.st = s] \in PutRecords
         /\ [b EXCEPT !.left = es] \in PutRecords
BY DEF PutRecords

LEMMA GetRecordType ==
  ASSUME NEW g \in GetRecords
  PROVE  /\ \A s \in {"ok", "notfound", "failed"} : [g EXCEPT !.st = s] \in GetRecords
         /\ \A q \in BOOLEAN : [g EXCEPT !.st = "template", !.quiet = q] \in GetRecords
         /\ \A es \in SUBSET Envs, t \in Puts :
               [g EXCEPT !.st = "values", !.left = es, !.template = t] \in GetRecords
         /\ \A t \in Puts \cup {Default} :
               [g EXCEPT !.st = "list", !.template = t] \in GetRecords
         /\ \A es \in SUBSET Envs : [g EXCEPT !.st = "values", !.left = es] \in GetRecords
         /\ \A s \in {"list", "values", "notfound"} :
               [g EXCEPT !.st = s, !.lost = TRUE] \in GetRecords
         /\ \A es \in SUBSET Envs, f \in [Envs -> Puts \cup {Default}] :
               [g EXCEPT !.left = es, !.got = f] \in GetRecords
         /\ \A es \in SUBSET Envs : [g EXCEPT !.left = es, !.lost = TRUE] \in GetRecords
BY DEF GetRecords

LEMMA QuietType ==
  ASSUME NEW g \in GetRecords
  PROVE  [g EXCEPT !.quiet = FALSE] \in GetRecords
BY DEF GetRecords

LEMMA LateType ==
  ASSUME TypeOK, NEW o \in Objects, NEW p \in Puts
  PROVE  /\ Written(o, p) \in [Objects -> Puts \cup {None}]
         /\ MayBeLate(o, p) => late' \subseteq Objects \X Puts
BY DEF TypeOK, Written, MayBeLate

LEMMA LateTypeStep ==
  ASSUME TypeOK, NEW o \in Objects, NEW p \in Puts, WriteLate(o, p)
  PROVE  TypeOK'
<1>1. \A r \in Gets : [get[r] EXCEPT !.quiet = FALSE] \in GetRecords
  BY QuietType DEF TypeOK
<1>2. store' \in [Objects -> Puts \cup {None}] /\ late' \subseteq Objects \X Puts
  BY LateType DEF TypeOK, WriteLate
<1> QED
  BY <1>1, <1>2 DEF TypeOK, WriteLate

LEMMA PutTypeStep ==
  ASSUME TypeOK, NEW p \in Puts, PutStep(p)
  PROVE  TypeOK'
<1> USE DEF TypeOK
<1>1. put[p] \in PutRecords /\ put[p].version \in Versions /\ put[p].left \in SUBSET Envs
  BY DEF PutRecords
<1>2. CASE BeginPut(p)
  <2>1. \A r \in Gets : [get[r] EXCEPT !.quiet = FALSE] \in GetRecords
    BY QuietType
  <2> QED
    BY <1>1, <1>2, <2>1, PutRecordType DEF BeginPut
<1>3. CASE WriteTemplate(p) \/ WriteTemplateFails(p)
  <2>1. Template(put[p].version) \in Objects
    BY <1>1, ObjectsDistinct
  <2>2. \A s \in {"values", "failed"} : [put[p] EXCEPT !.st = s] \in PutRecords
    BY <1>1, PutRecordType
  <2>3. store' \in [Objects -> Puts \cup {None}] /\ late' \subseteq Objects \X Puts
    BY <1>3, <2>1, LateType DEF WriteTemplate, WriteTemplateFails
  <2> QED
    BY <1>3, <2>2, <2>3 DEF WriteTemplate, WriteTemplateFails
<1>4. ASSUME NEW e \in Envs, WriteValues(p, e) \/ WriteValuesFails(p, e)
      PROVE  TypeOK'
  <2>1. store' \in [Objects -> Puts \cup {None}] /\ late' \subseteq Objects \X Puts
    BY <1>4, LateType, ObjectsDistinct DEF WriteValues, WriteValuesFails
  <2>2. /\ [put[p] EXCEPT !.st = "failed"] \in PutRecords
        /\ [put[p] EXCEPT !.left = @ \ {e}] \in PutRecords
    BY <1>1, PutRecordType
  <2>3. put' \in [Puts -> PutRecords]
    BY <1>4, <2>2 DEF WriteValues, WriteValuesFails
  <2> QED
    BY <1>4, <2>1, <2>3 DEF WriteValues, WriteValuesFails
<1>5. CASE ReplyPut(p)
  BY <1>1, <1>5, PutRecordType DEF ReplyPut
<1> QED
  BY <1>2, <1>3, <1>4, <1>5 DEF PutStep

LEMMA GetTypeStep ==
  ASSUME TypeOK, NEW r \in Gets, GetStep(r)
  PROVE  TypeOK'
<1> USE DEF TypeOK
<1>1. /\ get[r] \in GetRecords
      /\ get[r].version \in Versions
      /\ get[r].env \in Envs
      /\ get[r].left \in SUBSET Envs
      /\ get[r].got \in [Envs -> Puts \cup {Default}]
  BY DEF GetRecords
<1>2. SUFFICES \E g \in GetRecords : get' = [get EXCEPT ![r] = g]
  BY DEF GetStep, BeginGet, FetchTemplate, FetchTemplateFails, LoadTemplate,
         LoadTemplateFails, List, ListFails, FetchValues, FetchValuesFails, ReplyGet,
         RenderFails
<1>3. Template(get[r].version) \in Objects
  BY <1>1, ObjectsDistinct
<1>4. CASE BeginGet(r)
  <2>1. (\A p \in Puts : ~Writing(p)) \in BOOLEAN
    OBVIOUS
  <2> QED
    BY <1>1, <1>4, <2>1, GetRecordType DEF BeginGet
<1>5. CASE FetchTemplate(r)
  <2>1. RenderNeeds(r) \in SUBSET Envs
    BY <1>1, BaseAssumption DEF RenderNeeds
  <2>2. CASE store[Template(get[r].version)] = None
    BY <1>1, <1>5, <2>2, GetRecordType DEF FetchTemplate
  <2>3. CASE store[Template(get[r].version)] # None
    <3>1. store[Template(get[r].version)] \in Puts
      BY <1>3, <2>3
    <3> QED
      BY <1>1, <1>5, <2>1, <2>3, <3>1, GetRecordType DEF FetchTemplate
  <2> QED
    BY <2>2, <2>3
<1>6. CASE FetchTemplateFails(r) \/ LoadTemplateFails(r) \/ ListFails(r)
  BY <1>1, <1>6, GetRecordType DEF FetchTemplateFails, LoadTemplateFails, ListFails
<1>7. CASE LoadTemplate(r)
  BY <1>1, <1>3, <1>7, FetchedType, GetRecordType DEF LoadTemplate
<1>8. CASE List(r)
  BY <1>1, <1>8, GetRecordType DEF List
<1>9. ASSUME NEW e \in Envs, FetchValues(r, e)
      PROVE  \E g \in GetRecords : get' = [get EXCEPT ![r] = g]
  <2>1. Fetched(Values(e)) \in Puts \cup {Default}
    BY FetchedType, ObjectsDistinct
  <2>2. [get[r].got EXCEPT ![e] = Fetched(Values(e))] \in [Envs -> Puts \cup {Default}]
    BY <1>1, <2>1
  <2> DEFINE g == [get[r] EXCEPT !.left = @ \ {e}, !.got = [get[r].got EXCEPT ![e] = Fetched(Values(e))]]
  <2>3. g \in GetRecords
    BY <1>1, <2>2, GetRecordType
  <2>4. get' = [get EXCEPT ![r] = g]
    BY <1>9 DEF FetchValues
  <2> QED
    BY <2>3, <2>4
<1>10. ASSUME NEW e \in Envs, FetchValuesFails(r, e)
       PROVE  \E g \in GetRecords : get' = [get EXCEPT ![r] = g]
  <2> DEFINE g == [get[r] EXCEPT !.left = @ \ {e}, !.lost = TRUE]
  <2>1. g \in GetRecords
    BY <1>1, GetRecordType
  <2>2. get' = [get EXCEPT ![r] = g]
    BY <1>10 DEF FetchValuesFails
  <2> QED
    BY <2>1, <2>2
<1>11. CASE ReplyGet(r) \/ RenderFails(r)
  BY <1>1, <1>11, GetRecordType DEF ReplyGet, RenderFails
<1> QED
  BY <1>4, <1>5, <1>6, <1>7, <1>8, <1>9, <1>10, <1>11 DEF GetStep

(* Every variable keeps its type, whatever the versions, environments and  *)
(* requests.                                                               *)
THEOREM TypeCorrect == Spec => []TypeOK
<1>1. Init => TypeOK
  <2> SUFFICES ASSUME Init PROVE TypeOK
    OBVIOUS
  <2>1. \A v \in Versions, es \in SUBSET Envs :
           [st |-> "new", version |-> v, envs |-> es, left |-> es] \in PutRecords
    BY DEF PutRecords
  <2>2. \A k \in {"render", "bundle"}, v \in Versions, e \in Envs :
           [st |-> "new", kind |-> k, version |-> v, env |-> e,
            left |-> {}, template |-> Default,
            got |-> [x \in Envs |-> Default],
            lost |-> FALSE, quiet |-> FALSE] \in GetRecords
    BY DEF GetRecords
  <2> QED
    BY <2>1, <2>2 DEF Init, TypeOK
<1>2. TypeOK /\ UNCHANGED vars => TypeOK'
  BY DEF TypeOK, vars
<1>3. TypeOK /\ [Next]_vars => TypeOK'
  BY <1>2, PutTypeStep, GetTypeStep, LateTypeStep DEF Next
<1> QED
  BY <1>1, <1>3, PTL DEF Spec

---------------------------------------------------------------------------
LEMMA AloneStep ==
  ASSUME TypeOK, Alone, [Next]_vars
  PROVE  Alone'
<1> USE DEF TypeOK, Alone
<1>1. ASSUME NEW p \in Puts, BeginPut(p)
      PROVE  Alone'
  <2>1. \A q \in Puts : q # p => (Writing(q)' <=> Writing(q))
    BY <1>1 DEF BeginPut, Writing
  <2>2. solo' = p \/ \A q \in Puts : solo' # q
    BY <1>1, DistinctAssumption DEF BeginPut
  <2>3. solo' = p => \A q \in Puts : ~Writing(q)
    BY <1>1, DistinctAssumption DEF BeginPut
  <2> QED
    BY <2>1, <2>2, <2>3
<1>2. ASSUME NEW p \in Puts, PutStep(p), ~BeginPut(p)
      PROVE  Alone'
  <2>1. solo' = solo /\ \A q \in Puts : Writing(q)' => Writing(q)
    BY <1>2 DEF PutStep, WriteTemplate, WriteTemplateFails, WriteValues,
                WriteValuesFails, ReplyPut, TemplateDone, Writing
  <2> QED
    BY <2>1
<1>3. ASSUME NEW r \in Gets, GetStep(r)
      PROVE  Alone'
  BY <1>3 DEF GetStep, BeginGet, FetchTemplate, FetchTemplateFails, LoadTemplate,
              LoadTemplateFails, List, ListFails, FetchValues, FetchValuesFails,
              ReplyGet, RenderFails, Writing
<1>4. ASSUME NEW o \in Objects, NEW p \in Puts, WriteLate(o, p)
      PROVE  Alone'
  <2>1. put' = put /\ \A q \in Puts : solo' = q => solo = q
    BY <1>4, DistinctAssumption DEF WriteLate
  <2> QED
    BY <2>1 DEF Writing
<1>5. CASE UNCHANGED vars
  BY <1>5 DEF vars, Writing
<1> QED
  BY <1>1, <1>2, <1>3, <1>4, <1>5 DEF Next

(* A PUT step of somebody else cannot happen while solo is still running,  *)
(* and replaces solo when it begins after it.                              *)
LEMMA PutInvPutStep ==
  ASSUME TypeOK, PutInv, NEW p \in Puts, PutStep(p)
  PROVE  Fresh' /\ Kept' /\ Behind' /\ TemplateBeforeValues'
<1> USE DEF TypeOK, PutInv, Alone, Fresh, Kept, Behind, TemplateBeforeValues
<1>1. put[p] \in PutRecords /\ Template(put[p].version) \in Objects
  BY ObjectsDistinct DEF PutRecords
<1>2. \A q \in Puts : put[q].version \in Versions /\ put[q].envs \subseteq Envs
  BY DEF PutRecords
<1>3. CASE BeginPut(p)
  <2>1. /\ store' = store /\ late' = late
        /\ put'[p] = [put[p] EXCEPT !.st = "template"] /\ solo' \in {None, p}
    BY <1>3 DEF BeginPut
  <2>2. put[p].st = "new" /\ \A q \in Puts : q # p => put'[q] = put[q]
    BY <1>3 DEF BeginPut
  <2>3. put'[p].st = "template"
    BY <1>1, <2>1 DEF PutRecords
  <2>4. \A q \in Puts : solo' = q => q = p
    BY <2>1, DistinctAssumption
  <2>5. \A e \in Envs : store[Values(e)] # p /\ <<Values(e), p>> \notin late
    BY <2>2, ObjectsDistinct
  <2>6. put'[p].left = put[p].left /\ put'[p].envs = put[p].envs
    BY <1>1, <2>1 DEF PutRecords
  <2>7. Fresh'
    BY <2>1, <2>2, <2>6
  <2>8. Kept'
    BY <2>3, <2>4
  <2>9. Behind' /\ TemplateBeforeValues'
    BY <2>1, <2>4, <2>5
  <2> QED
    BY <2>7, <2>8, <2>9
<1>4. CASE WriteTemplate(p) \/ WriteTemplateFails(p)
  <2>1. /\ put[p].st = "template"
        /\ put'[p].st \in {"values", "failed"}
        /\ put'[p].left = put[p].left
        /\ solo' = solo
        /\ \A q \in Puts : q # p => put'[q] = put[q]
        /\ put'[p].version = put[p].version /\ put'[p].envs = put[p].envs
    BY <1>1, <1>4 DEF WriteTemplate, WriteTemplateFails, PutRecords
  <2>2. /\ \A o \in Objects : o # Template(put[p].version) => store'[o] = store[o]
        /\ store'[Template(put[p].version)] \in {p, store[Template(put[p].version)]}
        /\ put'[p].st = "values" => store'[Template(put[p].version)] = p
        /\ late' \subseteq late \cup {<<Template(put[p].version), p>>}
    BY <1>1, <1>4 DEF WriteTemplate, WriteTemplateFails, Written, MayBeLate, PutRecords
  <2>3. Writing(p) /\ \A q \in Puts : solo' = q => q = p
    BY <2>1 DEF Writing
  <2>4. Fresh'
    BY <1>1, <2>1, <2>2
  <2>5. \A e \in Envs : store'[Values(e)] # p /\ <<Values(e), p>> \notin late'
    BY <1>1, <2>1, <2>2, ObjectsDistinct
  <2>6. Behind' /\ TemplateBeforeValues'
    BY <2>3, <2>5
  <2>7. put'[p].left = put'[p].envs
    BY <2>1
  <2>8. Kept'
    BY <2>1, <2>2, <2>3, <2>7
  <2> QED
    BY <2>4, <2>6, <2>8
<1>5. ASSUME NEW e \in Envs, WriteValues(p, e) \/ WriteValuesFails(p, e)
      PROVE  Fresh' /\ Kept' /\ Behind' /\ TemplateBeforeValues'
  <2>1. /\ put[p].st = "values"
        /\ \/ put'[p].st = "failed"
           \/ /\ put'[p].st = "values"
              /\ put'[p].left = put[p].left \ {e}
              /\ store'[Values(e)] = p
        /\ solo' = solo
        /\ \A q \in Puts : q # p => put'[q] = put[q]
        /\ put'[p].version = put[p].version /\ put'[p].envs = put[p].envs
    BY <1>1, <1>5, ObjectsDistinct
       DEF WriteValues, WriteValuesFails, Written, TemplateDone, PutRecords
  <2>2. /\ \A o \in Objects : o # Values(e) => store'[o] = store[o]
        /\ store'[Values(e)] \in {p, store[Values(e)]}
        /\ late' \subseteq late \cup {<<Values(e), p>>}
    BY <1>1, <1>5, ObjectsDistinct
       DEF WriteValues, WriteValuesFails, Written, MayBeLate, PutRecords
  <2>3. \A q \in Puts : solo' = q => q = p
    BY <2>1 DEF Writing
  <2>4. Fresh'
    BY <1>1, <2>1, <2>2
  <2>5. solo' = p => store'[Template(put'[p].version)] = p
    BY <1>1, <2>1, <2>2, ObjectsDistinct
  <2>6. Behind' /\ TemplateBeforeValues'
    BY <2>3, <2>5
  <2>7. Kept'
    <3> SUFFICES ASSUME solo' = p, put'[p].st = "values",
                        NEW f \in put'[p].envs \ put'[p].left
                 PROVE  store'[Values(f)] = p
      BY <2>1, <2>3, <2>5
    <3>1. f \in Envs /\ Values(f) \in Objects
      BY <1>2, <2>1, ObjectsDistinct
    <3>2. CASE f = e
      BY <2>1, <3>2
    <3>3. CASE f # e
      BY <2>1, <2>2, <3>1, <3>3, ObjectsDistinct
    <3> QED
      BY <3>2, <3>3
  <2> QED
    BY <2>4, <2>6, <2>7
<1>6. CASE ReplyPut(p)
  <2>1. /\ put[p].st = "values" /\ put[p].left = {}
        /\ put'[p].st = "ok" /\ put'[p].left = put[p].left
        /\ solo' = solo /\ store' = store /\ late' = late
        /\ \A q \in Puts : q # p => put'[q] = put[q]
        /\ put'[p].version = put[p].version /\ put'[p].envs = put[p].envs
    BY <1>1, <1>6 DEF ReplyPut, NoneLeft, PutRecords
  <2>2. Fresh'
    BY <2>1
  <2>3. Kept'
    BY <2>1
  <2>4. Behind' /\ TemplateBeforeValues'
    BY <2>1
  <2> QED
    BY <2>2, <2>3, <2>4
<1> QED
  BY <1>3, <1>4, <1>5, <1>6 DEF PutStep

(* What comes late holds its own PUT's content, and ends the loneliness of *)
(* any other.                                                              *)
LEMMA PutInvLateStep ==
  ASSUME TypeOK, PutInv, NEW o \in Objects, NEW p \in Puts, WriteLate(o, p)
  PROVE  Fresh' /\ Kept' /\ Behind' /\ TemplateBeforeValues'
<1> USE DEF TypeOK, PutInv
<1>1. /\ <<o, p>> \in late /\ late' \subseteq late
      /\ put' = put
      /\ \A q \in Puts : solo' = q => q = p /\ solo = q
      /\ \A x \in Objects : store'[x] = IF x = o THEN p ELSE store[x]
  BY DistinctAssumption DEF WriteLate, Written
<1>2. /\ Template(put[p].version) \in Objects /\ \A e \in Envs : Values(e) \in Objects
      /\ put[p].envs \subseteq Envs
  BY ObjectsDistinct DEF PutRecords
<1>3. Fresh'
  BY <1>1 DEF Fresh
<1>4. Kept'
  BY <1>1, <1>2 DEF Kept
<1>5. solo' = p /\ (\E e \in Envs : store'[Values(e)] = p \/ <<Values(e), p>> \in late') =>
        store'[Template(put[p].version)] = p
  BY <1>1, <1>2 DEF Behind, TemplateBeforeValues
<1>6. Behind' /\ TemplateBeforeValues'
  BY <1>1, <1>5 DEF Behind, TemplateBeforeValues
<1> QED
  BY <1>3, <1>4, <1>6

LEMMA PutInvInvariant == Spec => []PutInv
<1>1. Init => PutInv
  BY DistinctAssumption DEF Init, PutInv, Alone, Fresh, Kept, Behind, TemplateBeforeValues,
                            Writing
<1>2. ASSUME TypeOK, PutInv, NEW r \in Gets, GetStep(r)
      PROVE  PutInv'
  <2>1. UNCHANGED <<store, put, late, solo>>
    BY <1>2 DEF GetStep, BeginGet, FetchTemplate, FetchTemplateFails, LoadTemplate,
                LoadTemplateFails, List, ListFails, FetchValues, FetchValuesFails, ReplyGet,
                RenderFails
  <2> QED
    BY <1>2, <2>1 DEF PutInv, Alone, Fresh, Kept, Behind, TemplateBeforeValues, Writing
<1>3. ASSUME TypeOK, PutInv, UNCHANGED vars
      PROVE  PutInv'
  BY <1>3 DEF vars, PutInv, Alone, Fresh, Kept, Behind, TemplateBeforeValues, Writing
<1>4. TypeOK /\ PutInv /\ [Next]_vars => PutInv'
  <2> SUFFICES ASSUME TypeOK, PutInv, [Next]_vars PROVE PutInv'
    OBVIOUS
  <2>1. Alone'
    BY AloneStep DEF PutInv
  <2> QED
    BY <1>2, <1>3, <2>1, PutInvPutStep, PutInvLateStep DEF Next, PutInv
<1> QED
  BY <1>1, <1>4, TypeCorrect, PTL DEF Spec

(* A PUT that ran alone and succeeded is whole until another begins, or a  *)
(* late write of another comes.                                            *)
THEOREM AckedStaysWhole == Spec => []AckedIsWhole
<1>1. TypeOK /\ PutInv => AckedIsWhole
  BY DEF TypeOK, PutInv, Kept, AckedIsWhole
<1> QED
  BY <1>1, TypeCorrect, PutInvInvariant, PTL

(* Wherever a lone PUT fails, values of it imply its template.             *)
THEOREM TemplateComesFirst == Spec => []TemplateBeforeValues
<1>1. PutInv => TemplateBeforeValues
  BY DEF PutInv
<1> QED
  BY <1>1, PutInvInvariant, PTL

---------------------------------------------------------------------------
(* What a GET has so far: while no PUT has run since it began, none runs,  *)
(* and what it has fetched is what the bucket holds.                       *)
Needs(g) == IF g.kind = "bundle" THEN Envs ELSE {Base, g.env}

Holds(g) ==
  /\ g.st = "notfound" => store[Template(g.version)] = None
  /\ g.st \in {"list", "values", "ok"} => g.template = Fetched(Template(g.version))
  /\ g.st \in {"values", "ok"} =>
       \A e \in Needs(g) \ g.left : g.got[e] = Fetched(Values(e))
  /\ g.st = "ok" => g.left = {}

GetOK(g) ==
  /\ g.st \in {"new", "template", "list"} => \A e \in Envs : g.got[e] = Default
  /\ g.st = "list" => g.kind = "bundle"
  /\ g.quiet => \A p \in Puts : ~Writing(p)
  /\ g.quiet /\ ~g.lost => Holds(g)

GetInv == \A r \in Gets : GetOK(get[r])

LEMMA GetInvGetStep ==
  ASSUME TypeOK, GetInv, NEW r \in Gets, GetStep(r)
  PROVE  GetInv'
<1> DEFINE g == get[r]
           h == get'[r]
<1>1. /\ g \in GetRecords /\ GetOK(g)
      /\ g.env \in Envs /\ Base \in Envs /\ g.got \in [Envs -> Puts \cup {Default}]
      /\ g.version \in Versions
  BY BaseAssumption DEF TypeOK, GetInv, GetRecords
<1>2. UNCHANGED <<store, put, late, solo>> /\ \A q \in Gets : q # r => get'[q] = get[q]
  BY DEF TypeOK, GetStep, BeginGet, FetchTemplate, FetchTemplateFails, LoadTemplate,
         LoadTemplateFails, List, ListFails, FetchValues, FetchValuesFails, ReplyGet,
         RenderFails
<1>3. SUFFICES GetOK(h)
  <2>1. \A q \in Gets : GetOK(get'[q])
    BY <1>2, <1>3 DEF GetInv
  <2> QED
    BY <1>2, <2>1 DEF GetInv, GetOK, Holds, Fetched, Writing
<1>4. Template(g.version) \in Objects /\ \A e \in Envs : Values(e) \in Objects
  BY <1>1, ObjectsDistinct
<1>5. CASE BeginGet(r)
  <2>1. /\ g.st = "new" /\ h.st = "template" /\ h.got = g.got
        /\ h.quiet = (\A p \in Puts : ~Writing(p))
    BY <1>1, <1>5 DEF BeginGet, TypeOK, GetRecords
  <2> QED
    BY <1>1, <2>1 DEF GetOK, Holds
<1>6. CASE FetchTemplate(r)
  <2>1. CASE store[Template(g.version)] = None
    <3>1. /\ g.st = "template" /\ h.st = "notfound" /\ h.version = g.version
          /\ h.quiet = g.quiet
      BY <1>1, <1>6, <2>1 DEF FetchTemplate, TypeOK, GetRecords
    <3> QED
      BY <1>1, <2>1, <3>1 DEF GetOK, Holds
  <2>2. CASE store[Template(g.version)] # None
    <3>1. /\ g.st = "template" /\ g.kind = "render"
          /\ h.st = "values" /\ h.version = g.version /\ h.kind = g.kind /\ h.env = g.env
          /\ h.left = RenderNeeds(r) /\ h.template = store[Template(g.version)]
          /\ h.quiet = g.quiet
      BY <1>1, <1>6, <2>2 DEF FetchTemplate, TypeOK, GetRecords
    <3> QED
      BY <1>1, <2>2, <3>1 DEF GetOK, Holds, Needs, RenderNeeds, Fetched
  <2> QED
    BY <2>1, <2>2
<1>7. CASE FetchTemplateFails(r)
  <2>1. g.st = "template" /\ h.st = "notfound" /\ h.lost /\ h.quiet = g.quiet
    BY <1>1, <1>7 DEF FetchTemplateFails, TypeOK, GetRecords
  <2> QED
    BY <1>1, <2>1 DEF GetOK
<1>8. CASE LoadTemplate(r)
  <2>1. /\ g.st = "template" /\ g.kind = "bundle" /\ h.st = "list" /\ h.kind = g.kind
        /\ h.version = g.version /\ h.got = g.got /\ h.quiet = g.quiet
        /\ h.template = Fetched(Template(g.version))
    BY <1>1, <1>8 DEF LoadTemplate, TypeOK, GetRecords
  <2> QED
    BY <1>1, <2>1 DEF GetOK, Holds
<1>9. CASE LoadTemplateFails(r)
  <2>1. /\ g.st = "template" /\ g.kind = "bundle" /\ h.st = "list" /\ h.kind = g.kind
        /\ h.got = g.got /\ h.quiet = g.quiet /\ h.lost
    BY <1>1, <1>9 DEF LoadTemplateFails, TypeOK, GetRecords
  <2> QED
    BY <1>1, <2>1 DEF GetOK
<1>10. CASE List(r)
  <2>1. /\ g.st = "list" /\ h.st = "values" /\ h.kind = g.kind /\ h.env = g.env
        /\ h.version = g.version /\ h.template = g.template /\ h.got = g.got
        /\ h.quiet = g.quiet /\ h.lost = g.lost
        /\ h.left = {e \in Envs : store[Values(e)] # None}
    BY <1>1, <1>10 DEF List, TypeOK, GetRecords
  <2>2. \A e \in Envs \ h.left : Fetched(Values(e)) = Default
    BY <2>1 DEF Fetched
  <2> QED
    BY <1>1, <2>1, <2>2 DEF GetOK, Holds, Needs
<1>11. CASE ListFails(r)
  <2>1. /\ g.st = "list" /\ h.st = "values" /\ h.quiet = g.quiet /\ h.lost
    BY <1>1, <1>11 DEF ListFails, TypeOK, GetRecords
  <2> QED
    BY <1>1, <2>1 DEF GetOK
<1>12. ASSUME NEW e \in Envs, FetchValues(r, e) PROVE GetOK(h)
  <2>1. /\ g.st = "values" /\ h.st = "values" /\ h.kind = g.kind /\ h.env = g.env
        /\ h.version = g.version /\ h.template = g.template
        /\ h.quiet = g.quiet /\ h.lost = g.lost
        /\ h.left = g.left \ {e}
        /\ h.got = [g.got EXCEPT ![e] = Fetched(Values(e))]
    BY <1>1, <1>12 DEF FetchValues, TypeOK, GetRecords
  <2>2. Needs(h) = Needs(g) /\ Needs(g) \subseteq Envs
    BY <1>1, <2>1 DEF Needs
  <2>3. \A f \in Needs(h) \ h.left : f = e \/ f \in Needs(g) \ g.left
    BY <2>1, <2>2
  <2>4. h.got[e] = Fetched(Values(e)) /\ \A f \in Envs \ {e} : h.got[f] = g.got[f]
    BY <1>1, <2>1
  <2> QED
    BY <1>1, <2>1, <2>2, <2>3, <2>4 DEF GetOK, Holds
<1>13. ASSUME NEW e \in Envs, FetchValuesFails(r, e) PROVE GetOK(h)
  <2>1. /\ g.st = "values" /\ h.st = "values" /\ h.quiet = g.quiet /\ h.lost
    BY <1>1, <1>13 DEF FetchValuesFails, TypeOK, GetRecords
  <2> QED
    BY <1>1, <2>1 DEF GetOK
<1>14. CASE ReplyGet(r)
  <2>1. /\ g.st = "values" /\ g.left = {} /\ h.st = "ok" /\ h.left = g.left
        /\ h.kind = g.kind /\ h.env = g.env /\ h.version = g.version
        /\ h.template = g.template /\ h.got = g.got
        /\ h.quiet = g.quiet /\ h.lost = g.lost
    BY <1>1, <1>14 DEF ReplyGet, TypeOK, GetRecords
  <2> QED
    BY <1>1, <2>1 DEF GetOK, Holds, Needs
<1>15. CASE RenderFails(r)
  <2>1. g.st = "values" /\ h.st = "failed" /\ h.quiet = g.quiet
    BY <1>1, <1>15 DEF RenderFails, TypeOK, GetRecords
  <2> QED
    BY <1>1, <2>1 DEF GetOK, Holds
<1> QED
  BY <1>5, <1>6, <1>7, <1>8, <1>9, <1>10, <1>11, <1>12, <1>13, <1>14, <1>15 DEF GetStep

(* A PUT that begins disturbs every GET; one that writes already has.      *)
LEMMA GetInvPutStep ==
  ASSUME TypeOK, GetInv, NEW p \in Puts, PutStep(p)
  PROVE  GetInv'
<1>1. CASE BeginPut(p)
  <2>1. \A r \in Gets : /\ ~get'[r].quiet
                        /\ get'[r].st = get[r].st
                        /\ get'[r].kind = get[r].kind
                        /\ get'[r].got = get[r].got
    BY <1>1 DEF BeginPut, TypeOK, GetRecords
  <2> QED
    BY <2>1 DEF GetInv, GetOK
<1>2. CASE ~BeginPut(p)
  <2>1. get' = get /\ Writing(p)
    BY <1>2 DEF PutStep, WriteTemplate, WriteTemplateFails, WriteValues,
                WriteValuesFails, ReplyPut, TemplateDone, Writing
  <2>2. \A r \in Gets : ~get[r].quiet
    BY <2>1 DEF GetInv, GetOK
  <2> QED
    BY <2>1, <2>2 DEF GetInv, GetOK
<1> QED
  BY <1>1, <1>2

(* And so does a late write.                                               *)
LEMMA GetInvLateStep ==
  ASSUME TypeOK, GetInv, NEW o \in Objects, NEW p \in Puts, WriteLate(o, p)
  PROVE  GetInv'
<1>1. \A r \in Gets : /\ ~get'[r].quiet
                      /\ get'[r].st = get[r].st
                      /\ get'[r].kind = get[r].kind
                      /\ get'[r].got = get[r].got
  BY DEF WriteLate, TypeOK, GetRecords
<1> QED
  BY <1>1 DEF GetInv, GetOK

(* An undisturbed GET answers what the bucket holds (main.go:138-175,      *)
(* 287-335).                                                               *)
THEOREM AnswersAreCurrent == Spec => []AnswerIsCurrent
<1>1. Init => GetInv
  <2> SUFFICES ASSUME Init, NEW r \in Gets PROVE GetOK(get[r])
    BY DEF GetInv
  <2>1. /\ get[r].st = "new" /\ ~get[r].quiet
        /\ \A e \in Envs : get[r].got[e] = Default
    BY DEF Init
  <2> QED
    BY <2>1 DEF GetOK
<1>2. TypeOK /\ GetInv /\ [Next]_vars => GetInv'
  <2>1. GetInv /\ UNCHANGED vars => GetInv'
    BY DEF vars, GetInv, GetOK, Holds, Fetched, Writing
  <2> QED
    BY <2>1, GetInvGetStep, GetInvPutStep, GetInvLateStep DEF Next
<1>3. GetInv => AnswerIsCurrent
  BY DEF GetInv, GetOK, Holds, Needs, AnswerIsCurrent
<1> QED
  BY <1>1, <1>2, <1>3, TypeCorrect, PTL DEF Spec
============================================================================
