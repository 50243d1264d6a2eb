------------------------------ MODULE Handover ------------------------------
(***************************************************************************)
(* How an image starts, and what it finds: the start-up code, SystemInit,  *)
(* System_Init, UART_Init and SW_Watchdog_Init, which all three images     *)
(* share, their main()s, and LaunchImage, which ends DICE and L0.          *)
(*                                                                         *)
(* The same code starts on three kinds of machine.  A system reset resets  *)
(* everything but the RAM.  System_Reset(SOFTWARE_RESET) resets the core   *)
(* alone: the PLL is still the system clock and TIM3 still counts.         *)
(* LaunchImage resets nothing at all: interrupts are masked, but SysTick   *)
(* runs, lines are enabled in the NVIC and the vector table is the         *)
(* launcher's.                                                             *)
(*                                                                         *)
(* Frequencies are in MHz.  The D-cache stands as one line of SRAM1-3, and *)
(* memory as the set of the images whose data it may hold.                 *)
(***************************************************************************)
EXTENDS Integers

CONSTANTS
  Images,    \* in the order they boot: a sequence
  Prompt     \* whether the system clock switches before the next register access

ASSUME ImagesAssumption == Images \in [{1, 2, 3} -> STRING]
ASSUME PromptAssumption == Prompt \subseteq BOOLEAN /\ Prompt # {}

VARIABLES
  n, pc,        \* the running image, and where it is
  prompt,
  \* RCC: SW and SWS of CFGR, PLL1ON, PLL1RDY, PLL1's factors, HPRE and D2PPRE1
  sw, sws, pllon, pllrdy, factors, hpre, ppre,
  SystemCoreClock,
  \* the core: PRIMASK, lines enabled in the NVIC, whose table VTOR points to,
  \* the SystemCoreClock that SysTick was set up with (0: SysTick is off)
  primask, nvic, vtor, systick,
  tim3,         \* whether TIM3 counts and interrupts, and its divisor
  rng,          \* the RNG generates
  handles,      \* HAL handles of the image that have their Instance set
  data,         \* the image's .data and .bss are set up
  dtcm, sram,   \* whose data may be in the DTCM (never cached) and in SRAM1-3
  dcache, line  \* the D-cache: on; the dirty line of SRAM1-3, at most one

rcc  == <<sw, sws, pllon, pllrdy, factors, hpre, ppre>>
core == <<primask, nvic, vtor, systick>>
ram  == <<handles, data, dtcm>>
mem  == <<sram, dcache, line>>
devices == <<tim3, rng>>
vars == <<n, pc, prompt, rcc, SystemCoreClock, core, devices, ram, mem>>

HSI == 64                     \* HSI_VALUE
NoFactors == [m |-> 0, n |-> 1, p |-> 1]
Loaded == {Images[i] : i \in DOMAIN Images}
Me == Images[n]

-----------------------------------------------------------------------------
(* Clocks *)

PLL == IF factors.m = 0 THEN 0 ELSE (HSI * factors.n) \div (factors.m * factors.p)

\* HAL_RCC_GetSysClockFreq, for HAL_Init and HAL_RCC_ClockConfig: from the registers,
\* with no divider for the core.  Nothing in the firmware selects CSI or HSE, divides
\* HSI or uses the fraction of the PLL, so those cases are left out.
SysClock == IF sws = "HSI" THEN HSI ELSE PLL

HCLK  == SysClock \div hpre
PCLK1 == HCLK \div ppre
TimerClock == IF ppre = 1 THEN PCLK1 ELSE 2 * PCLK1

\* Mutant: RCC_OscInitStruct gets the value of the register field, N - 1.
FactorsAsField == [m |-> 4, n |-> 49, p |-> 2]

\* RCC_OscInitStruct.PLL in SystemClock_Config.
Settings == [m |-> 4, n |-> 50, p |-> 2]

\* The hardware switches the system clock, and starts and stops PLL1.
SwitchDone ==
  /\ sws # sw /\ (sw = "PLL" => pllrdy)
  /\ sws' = sw
  /\ UNCHANGED <<n, pc, prompt, sw, pllon, pllrdy, factors, hpre, ppre,
                 SystemCoreClock, core, devices, ram, mem>>

PLLSettles ==
  /\ pllrdy # pllon /\ pllrdy' = pllon
  /\ UNCHANGED <<n, pc, prompt, sw, sws, pllon, factors, hpre, ppre,
                 SystemCoreClock, core, devices, ram, mem>>

-----------------------------------------------------------------------------
(* Resets *)

TIM3Off == [on |-> FALSE, divisor |-> 1]

\* RAM may hold anything the images left there in earlier boots.
Init ==
  /\ prompt \in Prompt
  /\ sw = "HSI" /\ sws = "HSI" /\ pllon = FALSE /\ pllrdy = FALSE
  /\ factors = NoFactors /\ hpre = 1 /\ ppre = 1 /\ tim3 = TIM3Off /\ rng = FALSE
  /\ primask = FALSE /\ nvic = {} /\ vtor = Images[1] /\ systick = 0
  /\ dcache = FALSE /\ line = {} /\ dtcm = Loaded /\ sram = Loaded
  /\ n = 1 /\ pc = "Reset_Handler"
  /\ handles = {} /\ data = FALSE /\ SystemCoreClock = HSI

\* Dirty lines of the D-cache are lost; RAM is kept.
ResetCore ==
  /\ primask' = FALSE /\ nvic' = {} /\ vtor' = Images[1] /\ systick' = 0
  /\ dcache' = FALSE /\ line' = {}
  /\ n' = 1 /\ pc' = "Reset_Handler" /\ handles' = {} /\ data' = FALSE
  /\ UNCHANGED <<prompt, SystemCoreClock, dtcm, sram>>

\* Power, NRST, the IWDG, or System_Reset(HARDWARE_RESET).
SystemReset ==
  /\ ResetCore
  /\ sw' = "HSI" /\ sws' = "HSI" /\ pllon' = FALSE /\ pllrdy' = FALSE
  /\ factors' = NoFactors /\ hpre' = 1 /\ ppre' = 1 /\ tim3' = TIM3Off /\ rng' = FALSE

\* System_Reset(SOFTWARE_RESET), in TIM3's interrupt.
CoreReset ==
  /\ ~primask /\ "TIM3" \in nvic /\ tim3.on
  /\ ResetCore
  /\ UNCHANGED <<rcc, devices>>

-----------------------------------------------------------------------------
(* From the first instruction to main() *)

Step(from, to) ==
  /\ pc = from /\ pc' = to
  /\ ~prompt \/ sws = sw
  /\ UNCHANGED <<n, prompt>>

\* The start-up code sets the stack pointer and fills in .data and .bss.
Reset_Handler ==
  /\ Step("Reset_Handler", "CFGR")
  /\ data' = TRUE /\ handles' = {} /\ dtcm' = dtcm \cup {Me}
  /\ SystemCoreClock' = HSI
  /\ UNCHANGED <<rcc, core, devices, mem>>

\* Mutant: CFGR is left as it is.
NoCFGR ==
  /\ Step("CFGR", "CR")
  /\ UNCHANGED <<rcc, SystemCoreClock, core, devices, ram, mem>>

\* SystemInit.  HSION, and HSI as the system clock.
SystemInitCFGR ==
  /\ Step("CFGR", "CR")
  /\ sw' = "HSI"
  /\ UNCHANGED <<sws, pllon, pllrdy, factors, hpre, ppre,
                 SystemCoreClock, core, devices, ram, mem>>

\* The hardware keeps PLL1 on while it is the system clock, or is to be.
SystemInitCR ==
  /\ Step("CR", "Dividers")
  /\ pllon' = (pllon /\ "PLL" \in {sw, sws})
  /\ UNCHANGED <<sw, sws, pllrdy, factors, hpre, ppre,
                 SystemCoreClock, core, devices, ram, mem>>

\* D1CFGR, D2CFGR and D3CFGR.
SystemInitDividers ==
  /\ Step("Dividers", "PLLCFGR")
  /\ hpre' = 1 /\ ppre' = 1
  /\ UNCHANGED <<sw, sws, pllon, pllrdy, factors,
                 SystemCoreClock, core, devices, ram, mem>>

\* PLL1's registers: the hardware ignores the writes unless it has stopped.
SystemInitPLL ==
  /\ Step("PLLCFGR", "VTOR")
  /\ factors' = IF pllon \/ pllrdy THEN factors ELSE NoFactors
  /\ UNCHANGED <<sw, sws, pllon, pllrdy, hpre, ppre,
                 SystemCoreClock, core, devices, ram, mem>>

SystemInitVTOR ==
  /\ Step("VTOR", "System_Init")
  /\ vtor' = Me
  /\ UNCHANGED <<rcc, SystemCoreClock, primask, nvic, systick, devices, ram, mem>>

-----------------------------------------------------------------------------
(* System_Init *)

\* SCB_EnableDCache invalidates what the cache holds, without cleaning it.  The
\* reset of System_Reset is released.
EnableCaches ==
  /\ Step("System_Init", "HAL_Init")
  /\ dcache' = TRUE /\ line' = {}
  /\ UNCHANGED <<rcc, SystemCoreClock, core, devices, ram, sram>>

\* HAL_InitTick fails on a clock of 0, and System_Init doesn't look at the result.
InitTick ==
  /\ SystemCoreClock' = SysClock
  /\ systick' = IF SysClock = 0 THEN systick ELSE SysClock

HAL_Init ==
  /\ Step("HAL_Init", "SystemClock_Config")
  /\ InitTick
  /\ UNCHANGED <<rcc, primask, nvic, vtor, devices, ram, mem>>

\* HAL_RCC_OscConfig reconfigures PLL1 unless it is the system clock.  If it is,
\* it must be configured like that already.
OscConfig ==
  /\ Step("SystemClock_Config", IF sws # "PLL" THEN "PLLOff"
                                ELSE IF factors = Settings THEN "ClockConfig" ELSE "Hang")
  /\ pllon' = (pllon /\ sws = "PLL")
  /\ UNCHANGED <<sw, sws, pllrdy, factors, hpre, ppre,
                 SystemCoreClock, core, devices, ram, mem>>

PLLConfig ==
  /\ Step("PLLOff", "PLLOn") /\ ~pllrdy
  /\ factors' = Settings /\ pllon' = TRUE
  /\ UNCHANGED <<sw, sws, pllrdy, hpre, ppre, SystemCoreClock, core, devices, ram, mem>>

PLLReady ==
  /\ Step("PLLOn", "ClockConfig") /\ pllrdy
  /\ UNCHANGED <<rcc, SystemCoreClock, core, devices, ram, mem>>

\* HAL_RCC_ClockConfig raises the dividers before it switches.
ClockDividers ==
  /\ Step("ClockConfig", "SwitchPLL")
  /\ hpre' = 2 /\ ppre' = 2
  /\ UNCHANGED <<sw, sws, pllon, pllrdy, factors,
                 SystemCoreClock, core, devices, ram, mem>>

ClockSwitch ==
  /\ Step("SwitchPLL", IF pllrdy THEN "Switching" ELSE "Hang")
  /\ sw' = IF pllrdy THEN "PLL" ELSE sw
  /\ UNCHANGED <<sws, pllon, pllrdy, factors, hpre, ppre,
                 SystemCoreClock, core, devices, ram, mem>>

\* The end of SystemClock_Config.  HAL_RCCEx_PeriphCLKConfig, asked for PLL1Q, HSI and
\* PCLK1, has no wait that could fail, so the loop behind its failure is left out.
ClockUpdate ==
  /\ Step("Switching", "__enable_irq") /\ sws = "PLL"
  /\ InitTick
  /\ UNCHANGED <<rcc, primask, nvic, vtor, devices, ram, mem>>

\* A wait for the hardware times out, if SysTick counts: in a launched image
\* interrupts are still masked, and it waits for ever.
ClockTimeout ==
  /\ pc \in {"PLLOff", "PLLOn", "Switching"} /\ ~primask
  /\ pc' = "Hang"
  /\ UNCHANGED <<n, prompt, rcc, SystemCoreClock, core, devices, ram, mem>>

EnableIrq ==
  /\ Step("__enable_irq", "UART_Init")
  /\ primask' = FALSE
  /\ UNCHANGED <<rcc, SystemCoreClock, nvic, vtor, systick, devices, ram, mem>>

\* UART_Init.  UART_MspDeInit leaves the line of USART3 itself enabled; the
\* handles of the DMA streams aren't linked yet.
UART_DeInit ==
  /\ Step("UART_Init", "UART_MspInit")
  /\ handles' = handles \cup {"huart"} /\ nvic' = nvic \ {"DMA"}
  /\ UNCHANGED <<rcc, SystemCoreClock, primask, vtor, systick, devices, data, dtcm, mem>>

UART_MspInit ==
  /\ Step("UART_MspInit", "UART")
  /\ handles' = handles \cup {"hdma"} /\ nvic' = nvic \cup {"DMA", "USART3"}
  /\ UNCHANGED <<rcc, SystemCoreClock, primask, vtor, systick, devices, data, dtcm, mem>>

\* Nothing can be reported without a UART.
UART_Init ==
  /\ Step("UART", "main") \/ Step("UART", "Hang")
  /\ UNCHANGED <<rcc, SystemCoreClock, core, devices, ram, mem>>

-----------------------------------------------------------------------------
(* main() *)

\* SW_Watchdog_Init.
TimHandleInit ==
  /\ Step("main", "TIM_MspInit")
  /\ handles' = handles \cup {"TimHandle"}
  /\ UNCHANGED <<rcc, SystemCoreClock, core, devices, data, dtcm, mem>>

TIM_MspInit ==
  /\ Step("TIM_MspInit", "TIM_Start")
  /\ nvic' = nvic \cup {"TIM3"}
  /\ UNCHANGED <<rcc, SystemCoreClock, primask, vtor, systick, devices, ram, mem>>

\* The prescaler is SystemCoreClock / (2 * 10000) - 1, for 10 kHz.
TIM_Start ==
  /\ Step("TIM_Start", "HW_RNG_Init")
  /\ tim3' = [on |-> TRUE, divisor |-> SystemCoreClock * 50]
  /\ UNCHANGED <<rcc, SystemCoreClock, core, rng, ram, mem>>

\* RNG_MspDeInit resets the RNG, RNG_MspInit gives it PLL1 for a clock.
HW_RNG_Init ==
  /\ Step("HW_RNG_Init", "Image_main")
  /\ handles' = handles \cup {"RngHandle"} /\ rng' = TRUE
  /\ UNCHANGED <<rcc, SystemCoreClock, core, tim3, data, dtcm, mem>>

\* The image keeps its variables in the DTCM and its log in SRAM2 and SRAM3.
Work ==
  /\ Step("Image_main", "Image_main")
  /\ dtcm' = dtcm \cup {Me}
  /\ line' = {(IF line = {} THEN sram ELSE UNION line) \cup {Me}}
  /\ UNCHANGED <<rcc, SystemCoreClock, core, devices, handles, data, sram, dcache>>

Evict ==
  /\ line # {}
  /\ sram' = UNION line /\ line' = {}
  /\ UNCHANGED <<n, pc, prompt, rcc, SystemCoreClock, core, devices, ram, dcache>>

HW_RNG_DeInit ==
  /\ Step("Image_main", "SW_Watchdog_End")
  /\ rng' = FALSE
  /\ UNCHANGED <<rcc, SystemCoreClock, core, tim3, ram, mem>>

SW_Watchdog_End ==
  /\ Step("SW_Watchdog_End", "TIM_MspDeInit")
  /\ tim3' = [tim3 EXCEPT !.on = FALSE]
  /\ UNCHANGED <<rcc, SystemCoreClock, core, rng, ram, mem>>

TIM_MspDeInit ==
  /\ Step("TIM_MspDeInit", "Image_end")
  /\ nvic' = nvic \ {"TIM3"}
  /\ UNCHANGED <<rcc, SystemCoreClock, primask, vtor, systick, devices, ram, mem>>

\* An image that fails, and L1 in any case, waits for the IWDG.
Fail ==
  /\ Step("Image_end", "Hang")
  /\ UNCHANGED <<rcc, SystemCoreClock, core, devices, ram, mem>>

-----------------------------------------------------------------------------
(* LaunchImage *)

\* Mutant: interrupts stay enabled.
InterruptsLeftOn ==
  /\ n < 3 /\ Step("Image_end", "SCB_DisableDCache")
  /\ UNCHANGED <<rcc, SystemCoreClock, core, devices, ram, mem>>

LaunchImage ==
  /\ n < 3 /\ Step("Image_end", "SCB_DisableDCache")
  /\ primask' = TRUE
  /\ UNCHANGED <<rcc, SystemCoreClock, nvic, vtor, systick, devices, ram, mem>>

\* Mutant: the caches stay on.
CachesLeftOn ==
  /\ Step("SCB_DisableDCache", "ClearDTCM")
  /\ UNCHANGED <<rcc, SystemCoreClock, core, devices, ram, mem>>

\* "Turn off caches gracefully": cleaned and invalidated.
DisableCaches ==
  /\ Step("SCB_DisableDCache", "ClearDTCM")
  /\ sram' = (IF line = {} THEN sram ELSE UNION line)
  /\ dcache' = FALSE /\ line' = {}
  /\ UNCHANGED <<rcc, SystemCoreClock, core, devices, ram>>

\* LaunchImageAsm: the DTCM, with every variable of the image, then SRAM1-3.
ClearDTCM ==
  /\ Step("ClearDTCM", "ClearSRAM")
  /\ dtcm' = {} /\ handles' = {} /\ data' = FALSE
  /\ UNCHANGED <<rcc, SystemCoreClock, core, devices, mem>>

ClearSRAM ==
  /\ Step("ClearSRAM", "Jump")
  /\ line' = IF dcache THEN {{}} ELSE line
  /\ sram' = IF dcache THEN sram ELSE {}
  /\ UNCHANGED <<rcc, SystemCoreClock, core, devices, ram, dcache>>

\* The trampoline, or RSS, jumps to the next image's start-up code.
Jump ==
  /\ pc = "Jump" /\ pc' = "Reset_Handler" /\ n' = n + 1
  /\ UNCHANGED <<prompt, rcc, SystemCoreClock, core, devices, ram, mem>>

Next ==
  \/ SwitchDone \/ PLLSettles \/ SystemReset \/ CoreReset
  \/ Reset_Handler \/ SystemInitCFGR \/ SystemInitCR \/ SystemInitDividers
  \/ SystemInitPLL \/ SystemInitVTOR
  \/ EnableCaches \/ HAL_Init \/ OscConfig \/ PLLConfig \/ PLLReady
  \/ ClockDividers \/ ClockSwitch \/ ClockUpdate \/ ClockTimeout
  \/ EnableIrq \/ UART_DeInit \/ UART_MspInit \/ UART_Init
  \/ TimHandleInit \/ TIM_MspInit \/ TIM_Start \/ HW_RNG_Init \/ Work \/ Evict
  \/ HW_RNG_DeInit \/ SW_Watchdog_End \/ TIM_MspDeInit \/ Fail
  \/ LaunchImage \/ DisableCaches \/ ClearDTCM \/ ClearSRAM \/ Jump

Spec == Init /\ [][Next]_vars

-----------------------------------------------------------------------------
(* Properties *)

Places ==
  {"Reset_Handler", "CFGR", "CR", "Dividers", "PLLCFGR", "VTOR", "System_Init",
   "HAL_Init", "SystemClock_Config", "PLLOff", "PLLOn", "ClockConfig", "SwitchPLL",
   "Switching", "__enable_irq", "UART_Init", "UART_MspInit", "UART", "main",
   "TIM_MspInit", "TIM_Start", "HW_RNG_Init", "Image_main", "SW_Watchdog_End",
   "TIM_MspDeInit", "Image_end", "SCB_DisableDCache", "ClearDTCM", "ClearSRAM",
   "Jump", "Hang"}

\* SystemCoreClock is that of HSI or of the one setting of PLL1.
TypeOK ==
  /\ n \in {1, 2, 3} /\ pc \in Places /\ prompt \in Prompt
  /\ sw \in {"HSI", "PLL"} /\ sws \in {"HSI", "PLL"}
  /\ pllon \in BOOLEAN /\ pllrdy \in BOOLEAN
  /\ factors \in {NoFactors, Settings} /\ hpre \in {1, 2} /\ ppre \in {1, 2}
  /\ SystemCoreClock \in {HSI, 400} /\ systick \in {0, HSI, 400}
  /\ primask \in BOOLEAN /\ nvic \subseteq {"TIM3", "USART3", "DMA"} /\ vtor \in Loaded
  /\ tim3 \in [on : BOOLEAN, divisor : {1, 400 * 50}]
  /\ rng \in BOOLEAN
  /\ handles \subseteq {"huart", "hdma", "TimHandle", "RngHandle"} /\ data \in BOOLEAN
  /\ dtcm \subseteq Loaded /\ sram \subseteq Loaded
  /\ dcache \in BOOLEAN /\ line \in {{}} \cup {{s} : s \in SUBSET Loaded}

\* Whatever started the image, an interrupt that can be taken finds the image's own
\* handler, its variables set up and the handle it uses filled in.  USART3 and the
\* DMA streams request none: the driver polls.
SysTickServed == systick # 0 => vtor = Me /\ data
TIM3Served == "TIM3" \in nvic => vtor = Me /\ data /\ "TimHandle" \in handles
HandlersReady == ~primask => SysTickServed /\ TIM3Served

\* A launched image finds nothing of those before it in the DTCM and in SRAM1-3,
\* now or later: neither the clearing nor what it clears is left in the D-cache
\* for SCB_EnableDCache to drop.  Nor does the RNG go on generating.
NothingLeftBehind ==
  n > 1 /\ pc \notin {"SCB_DisableDCache", "ClearDTCM", "ClearSRAM", "Jump"} =>
    /\ dtcm \subseteq {Me} /\ sram \subseteq {Me} /\ UNION line \subseteq {Me}
    /\ rng => "RngHandle" \in handles

\* From the start-up code until the clock is set up.
Starting ==
  {"Reset_Handler", "CFGR", "CR", "Dividers", "PLLCFGR", "VTOR", "System_Init",
   "HAL_Init", "SystemClock_Config", "PLLOff", "PLLOn", "ClockConfig", "SwitchPLL",
   "Switching", "Hang"}

\* The buses never run faster than "HCLK(Hz) = 200000000" and "APB1 Clock 100MHz",
\* even on the way from the clock the image found to its own; SystemInit doesn't
\* wait for the switch, so the hardware has to be prompt.  From System_Init on, the
\* core clock is the 400 MHz that the code takes it for, and the rates of SysTick
\* and TIM3 are right, whatever clock the image found.
ClocksRight ==
  /\ prompt => HCLK <= 200 /\ PCLK1 <= 100
  /\ pc \notin Starting =>
       /\ SysClock = 400 /\ SystemCoreClock = 400 /\ systick = 400
       /\ pc = "Image_main" => TimerClock * 1000 = tim3.divisor * 10

=============================================================================
