------------------------------ MODULE MCUsbHost -----------------------------
(* UsbHost with a keyboard of one key.                                      *)
EXTENDS UsbHost

CONSTANT Key
MCReports == {NoKeys, Key}

Quiet == [acks |-> {TRUE}, punctual |-> TRUE, retries |-> FALSE, announces |-> FALSE,
          unplugAt |-> {"ReadKeys", "Presence", "PresenceAgain"}]
Harsh == [acks |-> BOOLEAN, punctual |-> FALSE, retries |-> TRUE, announces |-> TRUE,
          unplugAt |-> Pcs]

Mute  == [Harsh EXCEPT !.acks = {}]

QuietHarshMute == {Quiet, Harsh, Mute}
Announcing == {[Quiet EXCEPT !.announces = TRUE, !.unplugAt = Pcs]}
=============================================================================
