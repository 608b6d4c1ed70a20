----------------------------- MODULE MCSymRegs -----------------------------
(* Registers with a second byte (rax), without (rsi), and the one whose    *)
(* 32-bit case differs (rdi) are followed further than the others.         *)
EXTENDS SymRegs, TLC
MCRegisters == {"rax", "rcx", "rdx", "rbx", "rsi", "rdi", "rsp", "rbp", "r8",
                "r9", "r10", "r11", "r12", "r13", "r14", "r15"}
MCMaxWrites == [r \in MCRegisters |-> IF r \in {"rax", "rsi", "rdi"} THEN 4 ELSE 2]
=============================================================================
