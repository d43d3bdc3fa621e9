---------------------------- MODULE PodTemplates ----------------------------
(***************************************************************************)
(* What the Pods of a provisioner run with: the environment, the command   *)
(* and the directory that podtemplate.go, annotationtoenv.go and the       *)
(* placeholders of template.go give the provisioner Pod of a volume, and   *)
(* how they reach the deprovisioner Pod through the annotations of the Pod *)
(* and the PersistentVolume, while users edit the StorageProvisioner and   *)
(* the claims.                                                             *)
(*                                                                         *)
(* When the Pods are started is the subject of Provisioning; here a volume *)
(* goes through its life once, and every step reads current objects.  The  *)
(* annotations a provisioner asks for are none of the manager's own.       *)
(***************************************************************************)
EXTENDS Naturals, Sequences, FiniteSetsExt

CONSTANTS
  Volume,       \* claims and the volumes provisioned for them
  Annotation,   \* annotations that a provisioner may ask for
  Text,         \* what users annotate claims with
  Specs,        \* specifications that users store
  MaxEdits      \* bound: edits of provisioners and claims

\* Strings of a specification, as they are before they are substituted: a
\* literal, ${STORAGE_NODE_PATH}, or a placeholder that does not exist.
Str(s)  == <<s, "literal">>
Path    == <<"$", "known">>
Unknown == <<"$", "unknown">>

\* What the placeholder stands for: a path of the volume's node.
PathOf(v, path) == <<path, v>>

Cmd == {"nil", "empty", "template", "provision", "deprovision"}

\* mapping: spec.env; env, cmd: of the container main in spec.podTemplate;
\* penv, pcmd, denv, dcmd: spec.containers; sound: main has an image and no
\* args; path: what spec.nodes maps the nodes to, if anything; dir: the path
\* in spec.persistentVolumeTemplate.  An env is a sequence of <<name, value>>.
SpecOf(values) ==
  [mapping : Seq([name : Nat, annotation : Annotation, required : BOOLEAN]),
   env : Seq(Nat \X values), penv : Seq(Nat \X values), denv : Seq(Nat \X values),
   cmd : Cmd, pcmd : Cmd, dcmd : Cmd, sound : BOOLEAN, path : STRING, dir : values]

ASSUME TemplateAssumption ==
  /\ Specs \subseteq SpecOf((STRING \X {"literal"}) \cup {Path, Unknown})
  /\ MaxEdits \in Nat

NoPod == [st |-> "none"]
NoPV  == [st |-> "none"]

VARIABLES
  registry,  \* specifications that the registry resolves the provisioner to
  claims,    \* annotations of each claim
  pods,      \* provisioner Pods, annotated with .anns and .spec
  pvs,       \* PersistentVolumes, annotated with .anns and .spec
  dpods,     \* deprovisioner Pods
  ran,       \* the provisioner Pod that succeeded
  edits      \* edits so far

vars == <<registry, claims, pods, pvs, dpods, ran, edits>>

-----------------------------------------------------------------------------
(* Environments. *)

NamesIn(env) == {env[i][1] : i \in DOMAIN env}

\* The reference: what a process sees of an env, the last entry of a name.
Lookup(env, n) ==
  LET at == {i \in DOMAIN env : env[i][1] = n}
  IN  IF at = {} THEN << >> ELSE env[CHOOSE i \in at : \A j \in at : j <= i][2]

\* The elements of a set of numbers in ascending order.
Ordered(S) ==
  [k \in 1..Cardinality(S) |-> CHOOSE x \in S : Cardinality({y \in S : y <= x}) = k]

\* Mutant of uniqueEnv: the first entry of a name is kept.
uniqueEnvFirst(env) ==
  LET m == [n \in NamesIn(env) |-> Min({i \in DOMAIN env : env[i][1] = n})]
      names == Ordered(NamesIn(env))
  IN  [i \in DOMAIN names |-> env[m[names[i]]]]

\* One entry per name, sorted by name.
uniqueEnv(env) ==
  LET m == [n \in NamesIn(env) |-> Max({i \in DOMAIN env : env[i][1] = n})]
      names == Ordered(NamesIn(env))
  IN  [i \in DOMAIN names |-> env[m[names[i]]]]

\* The variables of the annotations that are not empty, in the mapping's order.
AnnotationsToEnv(anns, mapping) ==
  LET given == Ordered({i \in DOMAIN mapping : anns[mapping[i].annotation] # ""})
  IN  [k \in DOMAIN given |->
         LET m == mapping[given[k]] IN <<m.name, Str(anns[m.annotation])>>]

AnnotationMissing(anns, mapping) ==
  \E i \in DOMAIN mapping : mapping[i].required /\ anns[mapping[i].annotation] = ""

CopyAnnotations(src, dest, mapping) ==
  [a \in Annotation |->
     IF \E i \in DOMAIN mapping : mapping[i].annotation = a THEN src[a] ELSE dest[a]]

NoAnnotations == [a \in Annotation |-> ""]

-----------------------------------------------------------------------------
(* Specifications. *)

StringsIn(s) ==
  {s.dir} \cup {e[2] : e \in Range(s.env) \cup Range(s.penv) \cup Range(s.denv)}

SubstituteFails(s) == Unknown \in StringsIn(s)

\* Objects are converted to JSON and back: an empty command becomes none.
ToJSON(s) ==
  LET NonEmpty(cmd) == IF cmd = "empty" THEN "nil" ELSE cmd
  IN  [s EXCEPT !.cmd = NonEmpty(@), !.pcmd = NonEmpty(@), !.dcmd = NonEmpty(@)]

\* Every string is substituted, in the Pod template, in both containers and
\* in the template of the PersistentVolume.
Substitute(s, v, path) ==
  LET str(x) == IF x = Path THEN PathOf(v, path) ELSE x
      all(env) == [i \in DOMAIN env |-> <<env[i][1], str(env[i][2])>>]
  IN  ToJSON([s EXCEPT !.env = all(@), !.penv = all(@), !.denv = all(@), !.dir = str(@)])

\* NewProvisionerPod merges the container into main where the template has
\* it: the specification is changed, and the Pod is what becomes of main.
Merge(s, env, cmd, values) ==
  [s EXCEPT !.env = uniqueEnv(s.env \o env \o values),
            !.cmd = IF cmd # "nil" THEN cmd ELSE @]

\* The errors of NewProvisionerPod.
MergeFails(merged) == ~merged.sound \/ merged.cmd \in {"nil", "empty"}

PodOf(merged) == [st |-> "running", env |-> merged.env, cmd |-> merged.cmd]

-----------------------------------------------------------------------------
(* Users. *)

\* Mutant of validateProvisioner: it does not look at the command.
validateImage(s) == s.sound

\* validateProvisioner tries the specification with placeholders' values of
\* its own, and ignores that it cannot be substituted.
validateProvisioner(s) ==
  LET tried == IF SubstituteFails(s) THEN s ELSE Substitute(s, "test", "/test-node-path")
  IN  ~MergeFails(Merge(tried, tried.penv, tried.pcmd, << >>))

\* What is registered after a specification was stored.
Put(s) == IF validateProvisioner(s) THEN {s} ELSE registry

EditProvisioner(s) ==
  /\ edits < MaxEdits
  /\ edits' = edits + 1
  /\ registry' = Put(s)
  /\ UNCHANGED <<claims, pods, pvs, dpods, ran>>

AnnotateClaim(v, a, text) ==
  /\ edits < MaxEdits
  /\ edits' = edits + 1
  /\ claims' = [claims EXCEPT ![v][a] = text]
  /\ UNCHANGED <<registry, pods, pvs, dpods, ran>>

-----------------------------------------------------------------------------
(* The claim controller. *)

\* Mutant of Get: the registry shares its object with the reconciliation.
GetShared(registered, changed) == changed

\* What is registered under a name after a reconciliation that got it has
\* changed what it got.
Get(registered, changed) == registered

\* Mutant of Recorded: the specification is marshalled before it is merged.
RecordedFirst(substituted, merged) == ToJSON(substituted)

\* The specification in the Pod's annotation, and so in the volume's.
Recorded(substituted, merged) == ToJSON(merged)

\* Create of ReconcileJob.  An attempt that fails leaves everything as it is.
\* from: what the Pod was made from.
CreatePod(v) == \E s \in registry :
  LET values == AnnotationsToEnv(claims[v], s.mapping)
      own    == Substitute(s, v, s.path)
      merged == Merge(own, own.penv, own.pcmd, values)
  IN  /\ pods[v].st = "none" /\ pvs[v].st = "none"
      /\ ~AnnotationMissing(claims[v], s.mapping)
      /\ s.path # "none" /\ ~SubstituteFails(s) /\ ~MergeFails(merged)
      /\ pods' = [pods EXCEPT ![v] =
           [st |-> "running", env |-> merged.env, cmd |-> merged.cmd,
            from |-> s, spec |-> Recorded(own, merged),
            anns |-> CopyAnnotations(claims[v], NoAnnotations, s.mapping)]]
      /\ registry' = {Get(s, merged)}
      /\ UNCHANGED <<claims, pvs, dpods, ran, edits>>

\* A Pod fails or is lost; the next attempt is made anew.
PodEnds(v) ==
  /\ pods[v].st = "running"
  /\ pods' = [pods EXCEPT ![v] = NoPod]
  /\ UNCHANGED <<registry, claims, pvs, dpods, ran, edits>>

\* Mutant of PVAnnotations: they are copied from the claim as it is now.
PVAnnotationsOfClaim(v, pod) == CopyAnnotations(claims[v], NoAnnotations, pod.spec.mapping)

PVAnnotations(v, pod) == CopyAnnotations(pod.anns, NoAnnotations, pod.spec.mapping)

\* OnCompleted: the volume is made from what the Pod was annotated with.
CreatePV(v) == LET pod == pods[v] IN
  /\ pod.st = "running"
  /\ pvs' = [pvs EXCEPT ![v] = [st |-> "live", dir |-> pod.spec.dir, spec |-> pod.spec,
                               anns |-> PVAnnotations(v, pod)]]
  /\ ran' = [ran EXCEPT ![v] = pod]
  /\ pods' = [pods EXCEPT ![v] = NoPod]
  /\ UNCHANGED <<registry, claims, dpods, edits>>

-----------------------------------------------------------------------------
(* The volume controller. *)

\* The deprovisioner container, merged into what the volume is annotated with.
Deprovisioner(pv) ==
  Merge(pv.spec, pv.spec.denv, pv.spec.dcmd, AnnotationsToEnv(pv.anns, pv.spec.mapping))

DeprovisionerFails(pv) ==
  AnnotationMissing(pv.anns, pv.spec.mapping) \/ MergeFails(Deprovisioner(pv))

CreateDeprovisioner(v) ==
  /\ pvs[v].st = "live" /\ dpods[v].st = "none"
  /\ ~DeprovisionerFails(pvs[v])
  /\ dpods' = [dpods EXCEPT ![v] = PodOf(Deprovisioner(pvs[v]))]
  /\ UNCHANGED <<registry, claims, pods, pvs, ran, edits>>

\* It fails or is lost, or it has succeeded and the volume is let go.
DeprovisionerEnds(v, succeeded) ==
  /\ dpods[v].st = "running"
  /\ dpods' = [dpods EXCEPT ![v] = NoPod]
  /\ pvs' = IF succeeded THEN [pvs EXCEPT ![v].st = "gone"] ELSE pvs
  /\ UNCHANGED <<registry, claims, pods, ran, edits>>

-----------------------------------------------------------------------------

Init ==
  /\ registry = {}
  /\ claims = [v \in Volume |-> NoAnnotations]
  /\ pods = [v \in Volume |-> NoPod]
  /\ pvs = [v \in Volume |-> NoPV]
  /\ dpods = [v \in Volume |-> NoPod]
  /\ ran = [v \in Volume |-> NoPod]
  /\ edits = 0

Next ==
  \/ \E s \in Specs : EditProvisioner(s)
  \/ \E v \in Volume :
       \/ \E a \in Annotation, text \in Text : AnnotateClaim(v, a, text)
       \/ CreatePod(v) \/ PodEnds(v) \/ CreatePV(v)
       \/ CreateDeprovisioner(v)
       \/ \E succeeded \in BOOLEAN : DeprovisionerEnds(v, succeeded)

Spec == Init /\ [][Next]_vars

-----------------------------------------------------------------------------

\* What a Pod can be built from: the container main has an image, no args, and
\* a command, its own or the provisioner's.
Runnable(s) == s.sound /\ {s.cmd, s.pcmd} \ {"nil", "empty"} # {}

\* The state is well-formed, and only a specification is registered that has
\* what its provisioner Pod is built from (validateProvisioner).  One with an
\* unknown placeholder is registered all the same: that it cannot be
\* substituted is found out when a Pod is to be created (CreatePod).
TypeOK ==
  /\ registry \subseteq {s \in Specs : Runnable(s)}
  /\ claims \in [Volume -> [Annotation -> Text \cup {""}]]
  /\ \A v \in Volume :
       /\ pods[v].st \in {"none", "running"} /\ dpods[v].st \in {"none", "running"}
       /\ pvs[v].st \in {"none", "live", "gone"}
  /\ edits \in 0..MaxEdits

\* A provisioner Pod has every variable once; an annotation of the claim takes
\* precedence over the provisioner's container, and that over the template,
\* whatever duplicates they have (NewProvisionerPod, uniqueEnv).
EnvPrecedence ==
  \A v \in Volume : pods[v].st = "running" =>
    LET pod    == pods[v]
        values == AnnotationsToEnv(pod.anns, pod.from.mapping)
        own    == Substitute(pod.from, v, pod.from.path)
    IN  /\ Len(pod.env) = Cardinality(NamesIn(pod.env))
        /\ NamesIn(pod.env) = UNION {NamesIn(values), NamesIn(own.penv), NamesIn(own.env)}
        /\ \A n \in NamesIn(pod.env) : Lookup(pod.env, n) =
             CASE n \in NamesIn(values)   -> Lookup(values, n)
               [] n \notin NamesIn(values) /\ n \in NamesIn(own.penv) -> Lookup(own.penv, n)
               [] OTHER                   -> Lookup(own.env, n)

\* A deprovisioner Pod sees what the provisioner Pod of its volume saw, but
\* for what the deprovisioner's container overrides; what was taken from the
\* claim's annotations is never overridden.  Edits of the claim and of the
\* provisioner since then make no difference (OnCompleted, deprovisionVolume).
DeprovisionerFollows ==
  \A v \in Volume : dpods[v].st = "running" =>
    LET values == AnnotationsToEnv(ran[v].anns, ran[v].from.mapping)
        own    == Substitute(ran[v].from, v, ran[v].from.path).denv
    IN  \A n \in NamesIn(ran[v].env) \cup NamesIn(own) :
          Lookup(dpods[v].env, n) = IF n \in NamesIn(own) \ NamesIn(values)
                                    THEN Lookup(own, n) ELSE Lookup(ran[v].env, n)

\* Once a volume was provisioned its deprovisioner Pod can be created: that
\* no error of NewProvisionerPod or AnnotationsToEnv keeps the volume forever
\* rests on the specification and annotations the Pod was run with, and not
\* on validateProvisioner, which does not look at the deprovisioner.
DeprovisionerBuildable ==
  \A v \in Volume : pvs[v].st = "live" => ~DeprovisionerFails(pvs[v])

\* Where a specification says no literal, the Pods of a volume and the volume
\* have no path but the one on its node that the provisioner Pod was given:
\* not another volume's, not one that was configured later, and no placeholder
\* (SubstituteProvisionerPlaceholders, on a copy that no other reconciliation
\* sees).
OwnDirectory ==
  \A v \in Volume :
    LET PathsIn(env) == {e[2] : e \in {x \in Range(env) : x[2][2] # "literal"}}
    IN  /\ pods[v].st = "running" => PathsIn(pods[v].env) \subseteq {PathOf(v, pods[v].from.path)}
        /\ pvs[v].st = "live" =>
             pvs[v].dir = IF ran[v].from.dir[2] = "literal" THEN ran[v].from.dir
                                                            ELSE PathOf(v, ran[v].from.path)
        /\ dpods[v].st = "running" => PathsIn(dpods[v].env) \subseteq {PathOf(v, ran[v].from.path)}

=============================================================================
