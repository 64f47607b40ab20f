-------------------------------- MODULE MCBoot --------------------------------
(* Small instance of the boot for TLC: drivers that register one service each
   and a module that asks for two, in an arena that does not hold them all. *)
EXTENDS Boot

MCProvides == [m \in {"com1", "picpit", "fdc", "ps2", "both"} |->
                  CASE m = "com1" -> {"uart"} [] m = "picpit" -> {"irq"} [] m = "fdc" -> {"floppy"}
                    [] m = "ps2" -> {"input"} [] m = "both" -> {"rtc", "uart"}]
MCSize == [m \in DOMAIN MCProvides |-> IF m \in {"ps2", "both"} THEN 2 ELSE 1]
MCEarly == [f \in BOOLEAN |-> IF f THEN <<"com1", "picpit", "fdc">> ELSE <<"both", "ps2", "ps2", "picpit">>]
MCOnDisk == [f \in BOOLEAN |-> IF f THEN <<"both", "com1", "fdc", "ps2", "picpit">>
                               ELSE <<"com1", "picpit", "ps2", "both">>]
=============================================================================
