------------------------------- MODULE MCJob -------------------------------
(* Two clients and a job, for TLC.                                          *)
EXTENDS Job

MCSizes == <<1, 2, 1, 1>>
MCConns == Jobs \X Clients
=============================================================================
