------------------------------- MODULE LC3Core -------------------------------
(***************************************************************************)
(* The tables of src/core/ that the virtual machine, the assembler and the *)
(* disassembler share: codes of registers, operations and traps.           *)
(***************************************************************************)
EXTENDS LC3Words

(* core/registers.h and core/registers.c *)

R0 == 0
R7 == 7
PROGRAM_COUNTER == 8
PROCESSOR_STATUS == 9
GeneralRegisters == 0 .. 7
RegisterCodes == 0 .. 9

\* register_by_code
RegisterName(code) ==
  <<"R0", "R1", "R2", "R3", "R4", "R5", "R6", "R7", "PROGRAM_COUNTER",
    "PROCESSOR_STATUS">>[code + 1]

(* core/operation.h *)

OP_BR == 0
OP_ADD == 1
OP_LD == 2
OP_ST == 3
OP_JSR == 4
OP_AND == 5
OP_LDR == 6
OP_STR == 7
OP_RTI == 8
OP_NOT == 9
OP_LDI == 10
OP_STI == 11
OP_JMP == 12
OP_RES == 13
OP_LEA == 14
OP_TRAP == 15

\* operation_by_code
OperationName(code) ==
  <<"BR", "ADD", "LD", "ST", "JSR", "AND", "LDR", "STR", "RTI", "NOT", "LDI",
    "STI", "JMP", "RES", "LEA", "TRAP">>[code + 1]

(* core/trap.c *)

TRAP_GETC == 32
TRAP_OUT == 33
TRAP_PUTS == 34
TRAP_IN == 35
TRAP_PUTSP == 36
TRAP_HALT == 37
Traps ==
  {TRAP_GETC, TRAP_OUT, TRAP_PUTS, TRAP_IN, TRAP_PUTSP, TRAP_HALT}

\* trap_by_code
TrapName(code) ==
  <<"GETC", "OUT", "PUTS", "IN", "PUTSP", "HALT">>[code - TRAP_GETC + 1]
==============================================================================
