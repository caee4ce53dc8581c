-------------------------- MODULE MCViewDispatcher ---------------------------
(* Constants of ViewDispatcher that a .cfg cannot write.                   *)
EXTENDS ViewDispatcher

MCLayerOf ==
    [p \in Port |-> IF p = "desktop" THEN "Desktop" ELSE "Fullscreen"]

MCFlippedKey ==
    [k \in Key |-> CASE k = "Up" -> "Down" [] k = "Down" -> "Up" [] OTHER -> k]
=============================================================================
