-------------------------------- MODULE Emcy --------------------------------
(***************************************************************************)
(* EmcyService over the node's object dictionary: error codes raised and   *)
(* cleared by the application, from within change callbacks too, counted   *)
(* in errorHistory and summed up in the error register 0x1001, and the     *)
(* callback of another node that hears the frames in order.                *)
(*                                                                         *)
(* The register is a set of bits. LocalNode::init inserts it as a 32-bit   *)
(* entry and the service reads and writes it as an 8-bit one, which the    *)
(* dictionary refuses; the service does not look at the answer.            *)
(***************************************************************************)
EXTENDS ObjDict

CONSTANTS Register,   \* the key of 0x1001
          Codes,      \* the error codes, none of them 0
          Bits,       \* the bits of the register (ErrorType)
          NoError,    \* code 0
          MaxBus      \* bound: frames on the bus

\* LocalNode::init inserts the register with 32 bits.
ASSUME RegisterAssumption == Register \in DOMAIN InitTable /\ InitTable[Register].type = "u32"

VARIABLES history,    \* errorHistory: code -> count
          bus,        \* the frames on the bus
          told        \* what the other node was told last

emcyVars == <<history, bus, told>>
vars == <<dictVars, calls, emcyVars>>

Quiet == "quiet"

NodeInit ==
  /\ Init
  /\ history = [e \in {} |-> 0]
  /\ bus = <<>> /\ told = Quiet

ErrorReg == Got(Register, "u8", {})
SetErrorReg(bits) == Put(Register, "u8", bits)
ClearErrorReg(type) == SetErrorReg(ErrorReg \ {type})

Raise(e, type) ==
  LET bits == ErrorReg \cup {type}
  IN /\ Call /\ Len(bus) < MaxBus
     /\ SetErrorReg(bits)
     /\ bus' = Append(bus, [code |-> e, bits |-> bits])
     /\ history' = [f \in DOMAIN history \cup {e} |->
          IF f # e THEN history[f] ELSE IF e \in DOMAIN history THEN history[e] + 1 ELSE 1]
     /\ UNCHANGED told

Forgotten(e) == [f \in DOMAIN history \ {e} |-> history[f]]
NoErrorFrame == [code |-> NoError, bits |-> {}]

\* Mutant: a code that was raised twice is forgotten when it is cleared once.
ClearAtOnce(e, type) ==
  /\ Call /\ Len(bus) < MaxBus /\ e \in DOMAIN history /\ UNCHANGED told
  /\ history' = Forgotten(e)
  /\ IF history[e] > 1 THEN UNCHANGED <<dictVars, bus>>
     ELSE ClearErrorReg(type) /\ bus' = Append(bus, NoErrorFrame)

\* clearEmcy does nothing for a code that is not active.
Clear(e, type) ==
  /\ Call /\ Len(bus) < MaxBus /\ e \in DOMAIN history /\ UNCHANGED told
  /\ IF history[e] > 1
     THEN history' = [history EXCEPT ![e] = @ - 1] /\ UNCHANGED <<dictVars, bus>>
     ELSE /\ history' = Forgotten(e)
          /\ ClearErrorReg(type)
          /\ bus' = IF ErrorReg \ {type} = {} THEN Append(bus, NoErrorFrame) ELSE bus

\* processMsg at the other node, once its callback is registered.
Deliver ==
  /\ bus # <<>>
  /\ bus' = Tail(bus) /\ told' = Head(bus).code
  /\ UNCHANGED <<dictVars, calls, history>>

NodeNext ==
  \/ Next /\ UNCHANGED emcyVars
  \/ \E e \in Codes, type \in Bits : Raise(e, type) \/ Clear(e, type)
  \/ Deliver

NodeSpec == NodeInit /\ [][NodeNext]_vars
-----------------------------------------------------------------------------

\* Once every code has been cleared as often as it was raised, the last word on
\* the bus, or to the other node if the bus is empty, is "no error" (clearEmcy).
LastWord == IF bus = <<>> THEN told ELSE bus[Len(bus)].code
AllClearIsAnnounced == DOMAIN history = {} => LastWord \in {NoError, Quiet}
=============================================================================
