---------------------------- MODULE MCUnityInterop ----------------------------
(* A small instance of UnityInterop for TLC.                               *)
EXTENDS UnityInterop
=============================================================================
