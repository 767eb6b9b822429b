------------------------------ MODULE VersionLog ------------------------------
(***************************************************************************)
(* What versioning promises of a rule or of a rule set, without tables,     *)
(* transactions or row locks: the versions of a code are numbered from 1,   *)
(* each saved change makes exactly the next one, and archives the one it    *)
(* replaces.  What is kept of a version then is all that it will ever say.  *)
(* Once a code has been removed nothing is promised of it.                  *)
(***************************************************************************)
EXTENDS Naturals, Sequences

CONSTANTS
  Codes,
  Contents,  \* what versions may say
  Kept       \* Kept[x]: what the archive keeps of a version that says x

VARIABLES log,   \* log[c][v]: what version v of code c says
          gone   \* codes that have been removed

logVars == <<log, gone>>

LogTypeOK ==
  /\ log \in [Codes -> Seq(Contents)]
  /\ gone \subseteq Codes

LogInit ==
  /\ log = [c \in Codes |-> <<>>]
  /\ gone = {}

\* The versions of a code when the last of them has been archived.
Superseded(versions) ==
  [v \in DOMAIN versions |-> IF v = Len(versions) THEN Kept[versions[v]] ELSE versions[v]]

\* The first version is the creation of the code, each later one an update.
Publish(c) ==
  /\ c \notin gone
  /\ Len(log'[c]) = Len(log[c]) + 1
  /\ LET content == log'[c][Len(log'[c])] IN
     /\ content \in Contents
     /\ log' = [log EXCEPT ![c] = Append(Superseded(@), content)]
  /\ UNCHANGED gone

Withdraw(c) ==
  /\ c \notin gone
  /\ gone' = gone \cup {c}
  /\ log' = [log EXCEPT ![c] = <<>>]

LogNext == \E c \in Codes : Publish(c) \/ Withdraw(c)

LogSpec == LogInit /\ [][LogNext]_logVars
==============================================================================
