----------------------------- MODULE MCKeyInput -----------------------------
(* A small instance of KeyInput for TLC. *)
EXTENDS KeyInput

\* A modifier that has two keys, one that has one, a lock key, and Delete,
\* which is read after E0.
Keyboard == {"LCtrl", "RCtrl", "RAlt", "Caps", "Delete"}
=============================================================================
