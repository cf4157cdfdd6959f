----------------------------- MODULE MCControl -----------------------------
(* Control with clients and tasks as the emitters of the event bus. *)
EXTENDS Control

EmittersOf == Clients \cup Tasks
=============================================================================
