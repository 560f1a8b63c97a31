---- MODULE MCAppInstaller ----
(* A small instance of AppInstaller: one of three apps is shipped, and     *)
(* there are four offers, so that at least one app is offered twice.       *)
EXTENDS AppInstaller

CONSTANTS a1, a2, a3

MCApp == {a1, a2, a3}
MCShipped == <<a1>>
====
