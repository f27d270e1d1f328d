------------------------------- MODULE Device -------------------------------
(***************************************************************************)
(* What the resource manager promises of its device: one buffer of bounded *)
(* size and its access right, changed by one whole command at a time.      *)
(***************************************************************************)
EXTENDS Naturals, Sequences

CONSTANTS
  Capacity,    (* DEVICE_BUF_SIZE                                          *)
  Units        (* what can be stored                                       *)

VARIABLES
  content,     (* what has been written since the last CLEAR               *)
  right        (* "rw", "ro" or "wo"                                       *)

deviceVars == <<content, right>>

DeviceInit == content = << >> /\ right = "rw"

(* Data is appended as far as it fits. *)
Write ==
  /\ right # "ro"
  /\ \E n \in 0 .. Capacity - Len(content) : \E data \in [1 .. n -> Units] :
       content' = content \o data
  /\ UNCHANGED right

Erase ==
  /\ right # "ro"
  /\ content' = << >>
  /\ UNCHANGED right

SetRight ==
  /\ right' \in {"rw", "ro", "wo"}
  /\ UNCHANGED content

(* Nothing is kept when the server process ends. *)
Restart == content' = << >> /\ right' = "rw"

DeviceNext == Write \/ Erase \/ SetRight \/ Restart

DeviceSpec == DeviceInit /\ [][DeviceNext]_deviceVars
=============================================================================
