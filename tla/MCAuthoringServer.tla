--------------------------- MODULE MCAuthoringServer ---------------------------
(***************************************************************************)
(* A small editor session: one document and one request.             *)
(***************************************************************************)
EXTENDS AuthoringServer, TLC

CONSTANTS main, hover

OneDocument == {main}
Hover == {hover}
=============================================================================
