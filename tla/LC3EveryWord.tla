---------------------------- MODULE LC3EveryWord ----------------------------
(***************************************************************************)
(* sign_extend compared with two's complement, and the decoders with the   *)
(* encoders.  The behaviour only enumerates inputs: trial walks through    *)
(* every 16-bit word, site is one of the addresses it is tried at.         *)
(***************************************************************************)
EXTENDS LC3Parser, LC3Decoding

CONSTANT Addresses    \* those every word is tried at

ASSUME AddressesAssumption == Addresses \subseteq Word

VARIABLES trial, site
trialVars == <<trial, site>>

TrialInit == trial = 0 /\ site \in Addresses
TrialNext == trial < WORD_MAX - 1 /\ trial' = trial + 1 /\ site' = site
TrialSpec == TrialInit /\ [][TrialNext]_trialVars

(* sign_extend recovers the two's-complement value of each of the four     *)
(* field widths operation.c decodes: -16..15, -32..31, -256..255 and       *)
(* -1024..1023.                                                            *)
SignExtendIsTwosComplement ==
  \A span \in {32, 64, 512, 2048} :
    LET field == trial % span IN
      Signed(SignExtend(field, span))
        = IF field < span \div 2 THEN field ELSE field - span

(* The label a PC-relative word at site refers to lies across the wrap     *)
(* of the address space.                                                   *)
Wraps(line) ==
  line.has_target
    /\ line.target # line.address + 1
                       + (IF line.operation = "JSR"
                          THEN Signed(PcOffset11(trial))
                          ELSE Signed(PcOffset9(trial)))

(* Every word at every address, decoded, printed, parsed and encoded, is   *)
(* that word again; except that the assembler refuses a label across the   *)
(* wrap.  A word no mnemonic would give back is data.                      *)
WordRoundTrip ==
  LET decoded == Decode(Undecoded(trial, site))
      label == Mint(decoded.target)
      table == <<[label |-> label, address |-> decoded.target]>>
      parsed == Parse(ListingLine([decoded EXCEPT !.reference_label = label]))
  IN  MachineCodes(parsed, table, site)
        = IF Wraps(decoded) THEN <<Error>> ELSE <<trial>>
=============================================================================
