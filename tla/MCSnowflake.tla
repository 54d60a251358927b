---------------------------- MODULE MCSnowflake ----------------------------
(* Small instances of Snowflake: one bit of sequence, a clock of a few      *)
(* milliseconds.                                                            *)
EXTENDS Snowflake, TLC

CONSTANTS post0, post2, notify0, posts, notifications

\* post-ingestion-service on two shards, notification-service on one of them.
SeededShards == post0 :> 0 @@ post2 :> 2 @@ notify0 :> 0
Services     == post0 :> posts @@ post2 :> posts @@ notify0 :> notifications
=============================================================================
