--------------------------- MODULE MCCloudAccounts ---------------------------
(***************************************************************************)
(* Instances of CloudAccounts for TLC.                                     *)
(***************************************************************************)
EXTENDS CloudAccounts, TLC

CONSTANTS a1, k1, k2, aws, r1, r2, job, req, owner

\* Edits: new credentials, with and without a region; a region that is checked
\* and one that is not; a pause.
Nothing == [checked |-> FALSE, provider |-> {}, secret |-> {}, active |-> {}, region |-> {}]
Changes ==
  {[Nothing EXCEPT !.secret = {k2}],
   [Nothing EXCEPT !.secret = {k1}, !.region = {r2}],
   [Nothing EXCEPT !.region = {r1}, !.checked = TRUE],
   [Nothing EXCEPT !.active = {FALSE}]}
=============================================================================
