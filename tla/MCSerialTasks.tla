---------------------------- MODULE MCSerialTasks ----------------------------
(* The model-checked instance of SerialTasks: a header of two bytes, which     *)
(* commands and LED data may contain, and images of one and two bytes, the    *)
(* second too long for its CRC.                                               *)
EXTENDS SerialTasks, TLC

MCHeader == <<"DE", "AD">>
MCCommand == {"DE", "enable charging"}
MCDatum == {"DE", "AD"}
MCImageSize == "bootloader cookie 1" :> 1 @@ "bootloader cookie 2" :> 2
=============================================================================
