-------------------------- MODULE MCInterviewGraph --------------------------
(* Small instances of InterviewGraph for TLC.                              *)
EXTENDS InterviewGraph

CONSTANTS t1, t2

MCTopics == <<t1, t2>>
=============================================================================
