-------------------------- MODULE MCResumeIdentity --------------------------
(* Instances of ResumeIdentity: three representations, the last one longer. *)
EXTENDS ResumeIdentity

MCReps == 1 .. 3
MCSize == <<2, 2, 3>>

\* A server that always identifies what it has, for a task that may resume and for
\* one that may not; a server that does not, under a user who changes the URL; and
\* one that takes old representations back ...
MCEnvs == {{"rude"}, {"rude", "whole"}, {"silent", "rude", "terse", "newurl"},
           {"silent", "terse", "revert"}}

\* ... and one whose preflight may stay without an answer.
MCSilent == {{"silent"}}
=============================================================================
