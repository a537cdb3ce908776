-------------------------- MODULE NativeCodeCache --------------------------
(***************************************************************************)
(* The instruction emitters of the native code cache: the instruction each *)
(* of them adds to the code, on 64-bit hosts.  Operands are registers,     *)
(* cells of a register file and immediates; the order of the parameters is *)
(* the source's.  An immediate that is not below 2^(W-1) is seen by the    *)
(* 64-bit host as an unsigned value that does not fit in 32 bits.          *)
(***************************************************************************)
EXTENDS X86

eax == R("eax")
ecx == R("ecx")
edx == R("edx")
ebx == R("ebx")
ebp == R("ebp")
esi == R("esi")
al == Low("eax")
ah == High("eax")
cl == Low("ecx")
ch == High("ecx")
dl == Low("edx")
dh == High("edx")
bl == Low("ebx")
bh == High("ebx")
xmm0 == <<"x", 0>>
xmm1 == <<"x", 1>>
xmm2 == <<"x", 2>>
xmm3 == <<"x", 3>>
xmm4 == <<"x", 4>>

\* The arithmetic group.  With an immediate that does not fit in 32 bits the
\* operation goes through r15 and is done on the 64-bit registers.
Wide == [add |-> "add64", or |-> "or64", adc |-> "adc64", sbb |-> "sbb64",
         and |-> "and64", sub |-> "sub64", xor |-> "xor64", cmp |-> "cmp64"]
X86Emit_Group1RR(d, s, op) == <<op, d, s>>
X86Emit_Group1RM(s, m, op) == <<op, m, s>>
X86Emit_Group1MR(d, m, op) == <<op, d, m>>
X86Emit_Group1IR(imm, d, op) == <<IF imm > MaxInt THEN Wide[op] ELSE op, d, I(imm)>>
X86Emit_Group1IM(imm, m, op) == <<op, m, I(imm)>>

X86Emit_ADDRR(d, s) == X86Emit_Group1RR(d, s, "add")
X86Emit_ADDRM(s, m) == X86Emit_Group1RM(s, m, "add")
X86Emit_ADDMR(d, m) == X86Emit_Group1MR(d, m, "add")
X86Emit_ADDIR(imm, d) == X86Emit_Group1IR(imm, d, "add")
X86Emit_ADDIM(imm, m) == X86Emit_Group1IM(imm, m, "add")
X86Emit_ORRR(d, s) == X86Emit_Group1RR(d, s, "or")
X86Emit_ORRM(s, m) == X86Emit_Group1RM(s, m, "or")
X86Emit_ORMR(d, m) == X86Emit_Group1MR(d, m, "or")
X86Emit_ORIR(imm, d) == X86Emit_Group1IR(imm, d, "or")
X86Emit_ORIM(imm, m) == X86Emit_Group1IM(imm, m, "or")
X86Emit_ADCRR(d, s) == X86Emit_Group1RR(d, s, "adc")
X86Emit_ADCMR(d, m) == X86Emit_Group1MR(d, m, "adc")
X86Emit_ADCIR(imm, d) == X86Emit_Group1IR(imm, d, "adc")
X86Emit_SBBRR(d, s) == X86Emit_Group1RR(d, s, "sbb")
X86Emit_SBBMR(d, m) == X86Emit_Group1MR(d, m, "sbb")
X86Emit_SBBIR(imm, d) == X86Emit_Group1IR(imm, d, "sbb")
X86Emit_ANDRR(d, s) == X86Emit_Group1RR(d, s, "and")
X86Emit_ANDRM(s, m) == X86Emit_Group1RM(s, m, "and")
X86Emit_ANDMR(d, m) == X86Emit_Group1MR(d, m, "and")
X86Emit_ANDIR(imm, d) == X86Emit_Group1IR(imm, d, "and")
X86Emit_ANDIM(imm, m) == X86Emit_Group1IM(imm, m, "and")
X86Emit_SUBRR(d, s) == X86Emit_Group1RR(d, s, "sub")
X86Emit_SUBMR(d, m) == X86Emit_Group1MR(d, m, "sub")
X86Emit_SUBIR(imm, d) == X86Emit_Group1IR(imm, d, "sub")
X86Emit_XORRR(d, s) == X86Emit_Group1RR(d, s, "xor")
X86Emit_XORMR(d, m) == X86Emit_Group1MR(d, m, "xor")
X86Emit_XORIR(imm, d) == X86Emit_Group1IR(imm, d, "xor")
X86Emit_CMPRR(d, s) == X86Emit_Group1RR(d, s, "cmp")
X86Emit_CMPIR(imm, d) == X86Emit_Group1IR(imm, d, "cmp")
X86Emit_TESTRR(d, s) == <<"test", d, s>>
X86Emit_TESTIR(imm, s) == <<"test", s, I(imm)>>
X86Emit_INCR(reg) == <<"inc", reg, I(1)>>
X86Emit_NOTR(reg) == <<"not", reg>>
X86Emit_NEGR(reg) == <<"neg", reg>>

\* Moves.
X86Emit_MOVRR(d, s) == <<"mov", d, s>>
X86Emit_MOVMR(d, m) == <<"mov", d, m>>
X86Emit_MOVRM(s, m) == <<"mov", m, s>>
X86Emit_MOVIR(imm, d) == <<"mov", d, I(imm)>>
X86Emit_MOVIM(imm, m) == <<"mov", m, I(imm)>>
X86Emit_MOVZXRR(d, s) == <<"mov", d, s>>
X86Emit_LEA(d, base, index, disp) == <<"lea", d, base, index, disp>>
X86Emit_BSRRR(d, s) == <<"bsr", d, s>>

\* Multiplications: of two words to one, and to the pair edx:eax.
X86Emit_IMULRRR(d, s) == <<"imul", d, d, s>>
X86Emit_IMULIRR(d, imm, s) == <<"imul", d, s, I(imm)>>
X86Emit_IMULRR(s) == <<"imul2", s>>
X86Emit_IMULMR(m) == <<"imul2", m>>

\* Shifts and rotations, by an immediate or by cl.
X86Emit_Group2IR(d, count, op) == <<op, d, I(count)>>
X86Emit_Group2RR(d, op) == <<op, d, cl>>
X86Emit_ROLIR(d, count) == X86Emit_Group2IR(d, count, "rol")
X86Emit_RORIR(d, count) == X86Emit_Group2IR(d, count, "ror")
X86Emit_RCRIR(d, count) == X86Emit_Group2IR(d, count, "rcr")
X86Emit_SHLIR(d, count) == X86Emit_Group2IR(d, count, "shl")
X86Emit_SHRIR(d, count) == X86Emit_Group2IR(d, count, "shr")
X86Emit_SARIR(d, count) == X86Emit_Group2IR(d, count, "sar")
X86Emit_ROLRR(d) == X86Emit_Group2RR(d, "rol")
X86Emit_RORRR(d) == X86Emit_Group2RR(d, "ror")
X86Emit_SHLRR(d) == X86Emit_Group2RR(d, "shl")
X86Emit_SHRRR(d) == X86Emit_Group2RR(d, "shr")
X86Emit_SARRR(d) == X86Emit_Group2RR(d, "sar")
X86Emit_Group2RM(m, op) == <<op, m, cl>>
X86Emit_SHLRM(m) == X86Emit_Group2RM(m, "shl")
X86Emit_SHLDIRR(d, s, count) == <<"shld", d, s, I(count)>>
X86Emit_SHLDRRR(d, s) == <<"shld", d, s, cl>>
X86Emit_SHRDIRR(d, s, count) == <<"shrd", d, s, I(count)>>
X86Emit_SHRDRRR(d, s) == <<"shrd", d, s, cl>>

\* What depends on the flags.
X86Emit_SETSR(d) == <<"set", "s", d>>
X86Emit_SETOR(d) == <<"set", "o", d>>
X86Emit_SETBR(d) == <<"set", "b", d>>
X86Emit_SETZR(d) == <<"set", "z", d>>
X86Emit_CMOVZRR(d, s) == <<"cmov", "z", d, s>>
X86Emit_CMOVNZRR(d, s) == <<"cmov", "nz", d, s>>
X86Emit_CMOVNBRR(d, s) == <<"cmov", "nb", d, s>>
X86Emit_CMOVNBERR(d, s) == <<"cmov", "nbe", d, s>>
X86Emit_CMOVLRR(d, s) == <<"cmov", "l", d, s>>
X86Emit_CMOVNLRR(d, s) == <<"cmov", "nl", d, s>>
X86Emit_CMOVNLERR(d, s) == <<"cmov", "nle", d, s>>
X86Emit_JCC_Label(cc, l) == <<"j", cc, l>>
X86Emit_JMPI_Label(l) == <<"jmp", l>>
X86Emit_RETN == <<"ret">>
SetLabelPointer(l) == <<"label", l>>

\* Vectors.
X86Emit_MOVDQUMR(d, m) == <<"movdqu", d, m>>
X86Emit_MOVDQURM(s, m) == <<"storevec", m, s>>
X86Emit_MOVDQAMR(d, imm) == <<"movdqu", d, I(imm)>>
X86Emit_PANDRR(d, s) == <<"pand", d, s>>
X86Emit_PADDRR(d, s) == <<"paddd", d, s>>
X86Emit_PSUBDRR(d, s) == <<"psubd", d, s>>
X86Emit_PMULLDRR(d, s) == <<"pmulld", d, s>>
X86Emit_PHADDDRR(d, s) == <<"phaddd", d, s>>
X86Emit_PSRADIR(d, count) == <<"psrad", d, I(count)>>
X86Emit_PSLDIR(d, count) == <<"pslld", d, I(count)>>
X86Emit_PSLDRR(d, s) == <<"pslld", d, s>>
X86Emit_MOVDRR(d, s) == <<"movd", d, s>>
X86Emit_MOVDRR2(d, s) == <<"lane", d, s>>
\* The emitters use the shuffle with order 0 only: the first word, four times.
X86Emit_SHUFIR(d, s, order) == <<"broadcast", d, s>>
=============================================================================
