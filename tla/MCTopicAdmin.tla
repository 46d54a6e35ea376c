---------------------------- MODULE MCTopicAdmin ----------------------------
(* Model-checking instance of TopicAdmin: the constants of its run.          *)
EXTENDS TopicAdmin

CONSTANTS i1, i2, s1, s2, g, c, r

DeclaredTwo == [t \in Repartitions |-> 2]

\* One instance uses every entry point, the other one only prepares.
MCCalls ==
  [i \in Instances |->
     IF i = i1
       THEN {"PrepareTopology", "EnsureRepartitionTopics", "EnsureGlobalTopics"}
       ELSE {"PrepareTopology"}]
=============================================================================
