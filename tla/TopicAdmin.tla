----------------------------- MODULE TopicAdmin -----------------------------
(***************************************************************************)
(* Topic preparation (internal/kafka/admin.go): several instances of one   *)
(* application start at about the same time and each calls PrepareTopology *)
(* (or one of EnsureRepartitionTopics and EnsureGlobalTopics) against a    *)
(* cluster on which an operator also creates topics, adds partitions and   *)
(* edits ACLs.  A call is a sequence of broker requests and everything else *)
(* may happen between two of them.                                         *)
(*                                                                         *)
(* The cluster is external and modelled from its use: CreateTopics decides *)
(* topic by topic, a created topic becomes visible in metadata some time   *)
(* later, and a request may fail at the client after taking effect.        *)
(* Replication factors, cleanup policies and the wording of errors are     *)
(* left out: no request of this code reads them back.                      *)
(***************************************************************************)
EXTENDS Integers, FiniteSets

CONSTANTS Instances,     \* processes of the application
          Sources,       \* caller-managed topics that drive tasks
          Outputs,       \* caller-managed sink topics
          Globals,       \* topics of the global tables
          Changelogs,    \* <appID>-<store>-changelog, one per store binding
          Repartitions,  \* <appID>-<name>-repartition
          Declared,      \* RepartitionBinding.Partitions, 0 when automatic
          Calls,         \* instance |-> the entry points it uses
          MaxPartitions, \* bound: the largest partition count of a topic
          MaxFailures    \* bound: how many requests fail

External == Sources \cup Outputs \cup Globals
Internal == Changelogs \cup Repartitions
Topics == External \cup Internal

ASSUME TopicNames ==
  /\ Sources # {}
  /\ External \cap Internal = {}
  /\ Changelogs \cap Repartitions = {}
  /\ MaxPartitions \in Nat \ {0}
  /\ Declared \in [Repartitions -> 0..MaxPartitions]
  /\ MaxFailures \in Nat
  /\ \A i \in Instances :
       Calls[i] \subseteq {"PrepareTopology", "EnsureRepartitionTopics",
                          "EnsureGlobalTopics"}

VARIABLES topics,   \* topic |-> its partition count, 0 when it does not exist
          visible,  \* topics that metadata responses show
          denied,   \* topics the application's principal may not create
          call,     \* instance |-> the call it is in, or made last
          pc,       \* instance |-> where that call is
          specs,    \* instance |-> []TopicSpec: name |-> Partitions
          missing,  \* instance |-> names that were absent from the metadata
          failures  \* how many requests have failed

vars == <<topics, visible, denied, call, pc, specs, missing, failures>>

NoSpecs == [t \in {} |-> 0]

Init ==
  /\ topics = [t \in Topics |-> 0]
  /\ visible = {}
  /\ denied \in {{}, Internal \cup Globals}
  /\ call = [i \in Instances |-> "none"]
  /\ pc = [i \in Instances |-> "idle"]
  /\ specs = [i \in Instances |-> NoSpecs]
  /\ missing = [i \in Instances |-> {}]
  /\ failures = 0

-----------------------------------------------------------------------------
(* The cluster and its operator.                                           *)

(* The operator creates a caller-managed topic, or an internal one the     *)
(* application is not authorised to create.                                *)
OperatorCreates(t, n) ==
  /\ topics[t] = 0
  /\ t \in External \cup denied
  /\ topics' = [topics EXCEPT ![t] = n]
  /\ UNCHANGED <<visible, denied, call, pc, specs, missing, failures>>

(* The operator raises the partition count of a source topic.              *)
AddPartitions(t) ==
  /\ topics[t] \in 1..MaxPartitions - 1
  /\ topics' = [topics EXCEPT ![t] = @ + 1]
  /\ UNCHANGED <<visible, denied, call, pc, specs, missing, failures>>

Authorize ==
  /\ denied # {}
  /\ denied' = {}
  /\ UNCHANGED <<topics, visible, call, pc, specs, missing, failures>>

Propagate(t) ==
  /\ topics[t] # 0
  /\ t \notin visible
  /\ visible' = visible \cup {t}
  /\ UNCHANGED <<topics, denied, call, pc, specs, missing, failures>>

(* What CreateTopics leaves in the cluster.  An existing topic is kept, a  *)
(* denied one and one with no partitions are refused, and the rest of the  *)
(* request is carried out.                                                 *)
Created(request) ==
  [t \in Topics |-> IF t \in DOMAIN request \ denied /\ topics[t] = 0
                    THEN request[t] ELSE topics[t]]

-----------------------------------------------------------------------------
(* fetchTopicMetadata: the topics of S that exist, as far as the broker    *)
(* that answers knows; an absent topic is not an error.                    *)
fetchTopicMetadata(S) == [t \in S \cap visible |-> topics[t]]

(* sourcePartitionCount: the sources must agree on a positive count.  0    *)
(* stands for the error.                                                   *)
sourcePartitionCount(metadata) ==
  IF \E n \in 1..MaxPartitions : \A s \in Sources : metadata[s] = n
  THEN CHOOSE n \in 1..MaxPartitions : \A s \in Sources : metadata[s] = n
  ELSE 0

(* internalTopicSpecs: one changelog per store of each kind, with the      *)
(* sources' count, and the repartition topics with theirs when declared.   *)
internalTopicSpecs(n) ==
  [t \in Internal |->
     IF t \in Repartitions /\ Declared[t] # 0 THEN Declared[t] ELSE n]

(* EnsureRepartitionTopics: the declared counts as they are.               *)
repartitionSpecs == Declared

(* EnsureGlobalTopics: one partition.                                      *)
globalSpecs == [t \in Globals |-> 1]

(* A call starts; it may be the retry of an earlier one.  The two Ensure   *)
(* calls build their specs from the bindings alone.                        *)
Begin(i, c) ==
  /\ pc[i] \in {"idle", "done", "failed"}
  /\ call' = [call EXCEPT ![i] = c]
  /\ \/ /\ c = "PrepareTopology"
        /\ pc' = [pc EXCEPT ![i] = "externals"]
        /\ specs' = [specs EXCEPT ![i] = NoSpecs]
     \/ /\ c = "EnsureRepartitionTopics"
        /\ pc' = [pc EXCEPT ![i] = IF Repartitions = {} THEN "done"
                                   ELSE "existing"]
        /\ specs' = [specs EXCEPT ![i] = repartitionSpecs]
     \/ /\ c = "EnsureGlobalTopics"
        /\ pc' = [pc EXCEPT ![i] = IF Globals = {} THEN "done"
                                   ELSE "existing"]
        /\ specs' = [specs EXCEPT ![i] = globalSpecs]
  /\ missing' = [missing EXCEPT ![i] = {}]
  /\ UNCHANGED <<topics, visible, denied, failures>>

(* The call returns with pc at status, and on an error only with that.     *)
Return(i, status) ==
  /\ pc' = [pc EXCEPT ![i] = status]
  /\ \/ /\ status = "failed"
        /\ specs' = [specs EXCEPT ![i] = NoSpecs]
        /\ missing' = [missing EXCEPT ![i] = {}]
     \/ /\ status # "failed"
        /\ UNCHANGED <<specs, missing>>

(* Mutant of PrepareTopology: declared repartition counts are not compared *)
(* with the sources' count.                                                *)
PrepareTopologyUnchecked(i) ==
  /\ pc[i] = "externals"
  /\ LET metadata == fetchTopicMetadata(External)
         n == IF External \subseteq DOMAIN metadata
              THEN sourcePartitionCount(metadata) ELSE 0
     IN /\ pc' = [pc EXCEPT ![i] = IF n = 0 THEN "failed" ELSE "existing"]
        /\ specs' = [specs EXCEPT ![i] = IF n = 0 THEN @
                                         ELSE internalTopicSpecs(n)]
  /\ UNCHANGED <<topics, visible, denied, call, missing, failures>>

(* PrepareTopology up to its call of EnsureTopics.                         *)
PrepareTopology(i) ==
  /\ pc[i] = "externals"
  /\ LET metadata == fetchTopicMetadata(External)
         n == IF External \subseteq DOMAIN metadata
              THEN sourcePartitionCount(metadata) ELSE 0
         refused == \/ n = 0
                    \/ \E r \in Repartitions : Declared[r] \notin {0, n}
     IN \/ refused /\ Return(i, "failed")
        \/ /\ ~refused
           /\ pc' = [pc EXCEPT ![i] = IF Internal = {} THEN "done"
                                      ELSE "existing"]
           /\ specs' = [specs EXCEPT ![i] = internalTopicSpecs(n)]
           /\ UNCHANGED missing
  /\ UNCHANGED <<topics, visible, denied, call, failures>>

(* Mutant of mismatched: a topic that is absent from the metadata counts   *)
(* as one with no partitions.                                              *)
mismatchedZeroValue(i, metadata) ==
  \E t \in DOMAIN specs[i] :
    specs[i][t] # IF t \in DOMAIN metadata THEN metadata[t] ELSE 0

(* The count of a topic that exists is checked against its spec.           *)
mismatched(i, metadata) ==
  \E t \in DOMAIN metadata : metadata[t] # specs[i][t]

(* EnsureTopics up to the CreateTopics request.                            *)
EnsureTopics(i) ==
  /\ pc[i] = "existing"
  /\ call[i] # "EnsureGlobalTopics"
  /\ LET existing == fetchTopicMetadata(DOMAIN specs[i])
         absent == DOMAIN specs[i] \ DOMAIN existing
     IN \/ mismatched(i, existing) /\ Return(i, "failed")
        \/ /\ ~mismatched(i, existing)
           /\ pc' = [pc EXCEPT ![i] = IF absent = {} THEN "done" ELSE "create"]
           /\ missing' = [missing EXCEPT ![i] = absent]
           /\ UNCHANGED specs
  /\ UNCHANGED <<topics, visible, denied, call, failures>>

(* EnsureGlobalTopics up to the CreateTopics request: a topic that exists  *)
(* is taken as it is.                                                      *)
EnsureGlobalTopics(i) ==
  /\ pc[i] = "existing"
  /\ call[i] = "EnsureGlobalTopics"
  /\ LET absent == Globals \ DOMAIN fetchTopicMetadata(Globals)
     IN /\ pc' = [pc EXCEPT ![i] = IF absent = {} THEN "done" ELSE "create"]
        /\ missing' = [missing EXCEPT ![i] = absent]
  /\ UNCHANGED <<topics, visible, denied, call, specs, failures>>

(* createTopicSpecs: one request for the missing topics.  TopicAlreadyExists *)
(* is success, whoever created the topic and with whatever count; any other  *)
(* error fails the call, although the rest of the request took effect.      *)
createTopicSpecs(i) ==
  /\ pc[i] = "create"
  /\ LET request == [t \in missing[i] |-> specs[i][t]]
         refused == {t \in missing[i] : /\ topics[t] = 0
                                        /\ t \in denied \/ request[t] = 0}
     IN /\ topics' = Created(request)
        /\ Return(i, IF refused # {} THEN "failed"
                     ELSE IF call[i] = "EnsureGlobalTopics" THEN "done"
                     ELSE "wait")
  /\ UNCHANGED <<visible, denied, call, failures>>

(* Mutant of waitForTopicMetadata: it waits for names only.                *)
waitForTopicMetadataNames(i) ==
  /\ pc[i] = "wait"
  /\ missing[i] \subseteq visible
  /\ pc' = [pc EXCEPT ![i] = "done"]
  /\ UNCHANGED <<topics, visible, denied, call, specs, missing, failures>>

(* One round of waitForTopicMetadata.  Specs are looked at in the order of *)
(* their names up to the first one that is not visible, so that when one   *)
(* topic is not visible and another has the wrong count the round may end  *)
(* either way.                                                             *)
waitForTopicMetadata(i) ==
  /\ pc[i] = "wait"
  /\ LET metadata == fetchTopicMetadata(missing[i])
     IN \/ mismatched(i, metadata) /\ Return(i, "failed")
        \/ /\ ~mismatched(i, metadata)
           /\ DOMAIN metadata = missing[i]
           /\ Return(i, "done")
  /\ UNCHANGED <<topics, visible, denied, call, failures>>

(* The 15 s deadline of waitForTopicMetadata.                              *)
WaitDeadline(i) ==
  /\ pc[i] = "wait"
  /\ Return(i, "failed")
  /\ UNCHANGED <<topics, visible, denied, call, failures>>

(* A request fails at the client; a CreateTopics request may already have  *)
(* taken effect.                                                           *)
RequestFails(i) ==
  /\ failures < MaxFailures
  /\ failures' = failures + 1
  /\ pc[i] \in {"externals", "existing", "create"}
  /\ \/ UNCHANGED topics
     \/ /\ pc[i] = "create"
        /\ topics' = Created([t \in missing[i] |-> specs[i][t]])
  /\ Return(i, "failed")
  /\ UNCHANGED <<visible, denied, call>>

Operator ==
  \/ \E t \in Topics, n \in 1..MaxPartitions : OperatorCreates(t, n)
  \/ \E s \in Sources : AddPartitions(s)
  \/ Authorize

(* What a call does by itself.                                             *)
Proceed(i) ==
  \/ PrepareTopology(i)
  \/ EnsureTopics(i)
  \/ EnsureGlobalTopics(i)
  \/ createTopicSpecs(i)
  \/ waitForTopicMetadata(i)
  \/ WaitDeadline(i)

Instance(i) ==
  \/ \E c \in Calls[i] : Begin(i, c)
  \/ Proceed(i)
  \/ RequestFails(i)

Next ==
  \/ Operator
  \/ \E t \in Topics : Propagate(t)
  \/ \E i \in Instances : Instance(i)

Spec == Init /\ [][Next]_vars

(* A call goes on and its deadline passes.  A failed start is tried again, *)
(* as a supervisor of the process does; a call that succeeded need not be  *)
(* repeated.  Nothing is assumed of the operator or of how fast a topic    *)
(* becomes visible; requests do not fail for ever (MaxFailures).           *)
Fairness ==
  \A i \in Instances :
    /\ WF_vars(pc[i] # "done" /\ \E c \in Calls[i] : Begin(i, c))
    /\ WF_vars(Proceed(i))

FairSpec == Spec /\ Fairness

-----------------------------------------------------------------------------
(* Types of the variables.                                                 *)
TypeOK ==
  /\ topics \in [Topics -> 0..MaxPartitions]
  /\ visible \subseteq {t \in Topics : topics[t] # 0}
  /\ denied \subseteq Topics
  /\ \A i \in Instances : call[i] \in Calls[i] \cup {"none"}
  /\ pc \in [Instances -> {"idle", "externals", "existing", "create", "wait",
                           "done", "failed"}]
  /\ \A i \in Instances :
       /\ DOMAIN specs[i] \in {{}, Internal, Repartitions, Globals}
       /\ specs[i] \in [DOMAIN specs[i] -> 0..MaxPartitions]
       /\ missing[i] \subseteq DOMAIN specs[i]
  /\ failures \in 0..MaxFailures

(* A call that returned nil has its topics: each one exists, and unless it *)
(* is a global topic it is visible with the partition count of its spec,   *)
(* also when another instance or the operator won the race to create it    *)
(* (EnsureTopics, createTopicSpecs, waitForTopicMetadata).                 *)
EnsuredTopics ==
  \A i \in Instances : pc[i] = "done" =>
    \A t \in DOMAIN specs[i] :
      /\ topics[t] # 0
      /\ call[i] # "EnsureGlobalTopics" =>
           t \in visible /\ topics[t] = specs[i][t]

(* Once some PrepareTopology has succeeded all internal topics have one    *)
(* and the same partition count, and no source has fewer partitions: a key *)
(* has the same partition number in every changelog and repartition topic, *)
(* and no partition of an internal topic is without a task.                *)
PreparedCoPartitioned ==
  \A i \in Instances :
    pc[i] = "done" /\ call[i] = "PrepareTopology" =>
      \E n \in 1..MaxPartitions :
        /\ \A t \in Internal : topics[t] = n
        /\ \A s \in Sources : topics[s] >= n

(* The cluster is fit for the topology: what PrepareTopology validates,    *)
(* and metadata that shows every topic there is.                           *)
Fit ==
  /\ External \subseteq visible
  /\ \A t \in Internal : topics[t] # 0 => t \in visible
  /\ denied = {}
  /\ \E n \in 1..MaxPartitions :
       /\ \A s \in Sources : topics[s] = n
       /\ \A r \in Repartitions : Declared[r] \in {0, n}
       /\ \A t \in Internal : topics[t] \in {0, n}

(* Preparation is not wedged by its own failures: when the cluster stays   *)
(* fit, an instance whose earlier calls created some of the topics, lost   *)
(* the answer, or ran into the deadline is prepared by a later call        *)
(* (createTopicSpecs is idempotent).                                       *)
RetriesSucceed ==
  \A i \in Instances : <>[]Fit => []<>(pc[i] = "done")
=============================================================================
