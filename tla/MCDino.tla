------------------------------- MODULE MCDino --------------------------------
EXTENDS Dino

(* The channels of the hardware definition with the Dino boards.           *)
Boards == [adc |-> 1, dac |-> 0]

(* The first two bytes of I2C_SWITCH_CHANNEL_MAP: 0x20 and 0x80            *)
TwoChannels == <<"bit5", "bit7">>

(* What a switch that lost its setting answers                             *)
OtherByte == {{}}

(* Every kind of call: getIoextOutputRegister() makes the steps of         *)
(* getGain(), and getIoextDirectionRegister() reads the other register.    *)
Calls ==
       [kind : {"configure"}, board : Board]
  \cup {[kind |-> "setGain", board |-> "dac", gain |-> {"gain_lsb"}],
        [kind |-> "getGain", board |-> "dac"],
        [kind |-> "getDir", board |-> "adc"],
        [kind |-> "check", board |-> "none"]}

(* Registers of an I/O expander after power-up: inputs that drive high     *)
AllFields == Field
=============================================================================
