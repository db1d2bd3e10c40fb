------------------------------- MODULE MCSystem -------------------------------
(* Values for the model checking of System.                                *)
EXTENDS System

CONSTANTS a, b   \* clients

TwoClients == {a, b}
=============================================================================
