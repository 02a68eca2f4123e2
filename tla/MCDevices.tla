----------------------------- MODULE MCDevices -----------------------------
(*****************************************************************************)
(* The drivers that share nothing with another one, model-checked in one     *)
(* run: both console inputs, the millisecond clock, the keyboard and the     *)
(* text console.  A behaviour is one of a single driver, chosen at the       *)
(* start; the variables of the others keep their initial values.             *)
(*****************************************************************************)
EXTENDS AvrUart, XUart, XTimer, Keyb, TextConsole

VARIABLE device   \* the driver whose behaviour this is

Devices == {"AvrUart", "XUart", "XTimer", "Keyb", "TextConsole"}

DevicesInit ==
  /\ device \in Devices
  /\ UartInit /\ Init /\ TimerInit /\ KeybInit /\ ConInit

Is(d) == device = d /\ UNCHANGED device

DevicesNext ==
  \/ Is("AvrUart") /\ UartNext /\ UNCHANGED <<vars, timervars, keybvars, convars>>
  \/ Is("XUart") /\ Next /\ UNCHANGED <<uartvars, timervars, keybvars, convars>>
  \/ Is("XTimer") /\ TimerNext /\ UNCHANGED <<uartvars, vars, keybvars, convars>>
  \/ Is("Keyb") /\ KeybNext /\ UNCHANGED <<uartvars, vars, timervars, convars>>
  \/ Is("TextConsole") /\ ConNext /\ UNCHANGED <<uartvars, vars, timervars, keybvars>>

(* The fairness of UartFairSpec and of XUart's FairSpec; the other drivers have *)
(* no liveness property.                                                        *)
DevicesSpec ==
  /\ DevicesInit
  /\ [][DevicesNext]_<<device, uartvars, vars, timervars, keybvars, convars>>
  /\ WF_uartvars(device = "AvrUart" /\ uart_service)
  /\ WF_vars(device = "XUart" /\ interrupt)
  /\ WF_vars(device = "XUart" /\ service)

(* The arguments of the console operations: control characters, the two of con_ln, and *)
(* text that ends in one; places on the screen, at its edge and outside.               *)
ConStrings == {<<"TAB">>, <<"CR">>, <<"LF">>, <<"CR", "LF">>, <<"b", "c", "LF", "DEL">>}
ConPlaces == {<<0, 0>>, <<2, 1>>, <<1, 0>>, <<3, 0>>, <<0, 2>>}

=============================================================================
