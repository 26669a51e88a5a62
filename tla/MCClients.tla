----------------------------- MODULE MCClients -----------------------------
(***************************************************************************)
(* The programs of Clients with up to three paths, pages of three rows,    *)
(* results of up to two full pages.                                        *)
(***************************************************************************)
EXTENDS Clients

\* CAT_NO_ROWS_FOUND, and UNIX_FILE_READ_ERR, a multiple of 256.
MCStatuses == {-808000, -512000}
=============================================================================
