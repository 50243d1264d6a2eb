--------------------------- MODULE HandoverProofs ---------------------------
(***************************************************************************)
(* Proofs that the properties of Handover hold for images of any name and  *)
(* on both kinds of hardware: whatever clocks, interrupts and memory the   *)
(* images find at their start, none of it hurts them.                      *)
(***************************************************************************)
EXTENDS Handover, TLAPS

-----------------------------------------------------------------------------
(* Where the code is decides what it can rely on. *)

\* The vector table may still be another image's.
Early == {"Reset_Handler", "CFGR", "CR", "Dividers", "PLLCFGR", "VTOR"}

\* TIM3 may interrupt.
Guarded == {"TIM_Start", "HW_RNG_Init", "Image_main", "SW_Watchdog_End", "TIM_MspDeInit"}

Launching == {"SCB_DisableDCache", "ClearDTCM", "ClearSRAM", "Jump"}

PlaceInv ==
  /\ n \in {1, 2, 3} /\ pc \in Places /\ prompt \in Prompt
  /\ primask \in BOOLEAN /\ data \in BOOLEAN
  /\ pc \in Launching => n \in {1, 2}

\* Interrupts are masked from the launch of an image until it is ready for them.
HandlersInv ==
  /\ pc \in Launching => primask
  /\ pc \in Early => primask \/ (n = 1 /\ systick = 0)
  /\ pc \notin Early => vtor = Me
  /\ n = 1 => vtor = Me
  /\ pc \notin {"Reset_Handler", "ClearSRAM", "Jump"} => data
  /\ pc = "TIM_MspInit" => "TimHandle" \in handles
  /\ "TIM3" \in nvic => pc \in Guarded /\ "TimHandle" \in handles

\* What the launch clears stays clear: no line of the D-cache covers it.
MemoryInv ==
  /\ pc \in {"ClearDTCM", "ClearSRAM", "Jump"} => ~dcache /\ line = {}
  /\ pc \in {"ClearSRAM", "Jump"} => dtcm = {}
  /\ pc = "Jump" => sram = {}
  /\ pc \in Launching \cup {"Image_end", "SW_Watchdog_End", "TIM_MspDeInit"} => ~rng
  /\ n > 1 /\ pc = "Reset_Handler" => ~rng

\* HSI is selected from SystemInit until HAL_RCC_ClockConfig.
OnHSI ==
  {"CR", "Dividers", "PLLCFGR", "VTOR", "System_Init", "HAL_Init", "SystemClock_Config",
   "PLLOff", "PLLOn", "ClockConfig", "SwitchPLL"}

ClocksOK ==
  /\ sw \in {"HSI", "PLL"} /\ sws \in {"HSI", "PLL"}
  /\ pllon \in BOOLEAN /\ pllrdy \in BOOLEAN
  /\ factors \in {NoFactors, Settings} /\ hpre \in {1, 2} /\ ppre \in {1, 2}
  /\ SystemCoreClock \in {HSI, 400} /\ systick \in {0, HSI, 400}
  /\ tim3 \in [on : BOOLEAN, divisor : {1, 400 * 50}]

\* PLL1 has one setting whenever it drives the core or is about to, and the buses
\* are divided before the switch.
ClocksInv ==
  /\ ClocksOK
  /\ "PLL" \in {sw, sws} => pllon /\ factors = Settings
  /\ pc \in {"PLLOn", "ClockConfig", "SwitchPLL"} => pllon /\ factors = Settings
  /\ pc \in OnHSI => sw = "HSI"
  /\ pc = "SwitchPLL" => hpre = 2 /\ ppre = 2
  /\ sw = "PLL" => hpre = 2 /\ ppre = 2
  /\ prompt /\ sws = "PLL" => hpre = 2 /\ ppre = 2
  /\ pc = "Switching" => sw = "PLL"
  /\ pc \notin Starting =>
       sw = "PLL" /\ sws = "PLL" /\ SystemCoreClock = 400 /\ systick = 400
  /\ pc \in {"HW_RNG_Init", "Image_main"} => tim3.divisor = 400 * 50

\* What is left of TypeOK.
DataInv ==
  /\ nvic \subseteq {"TIM3", "USART3", "DMA"} /\ vtor \in Loaded
  /\ rng \in BOOLEAN
  /\ handles \subseteq {"huart", "hdma", "TimHandle", "RngHandle"}
  /\ dtcm \subseteq Loaded /\ sram \subseteq Loaded
  /\ dcache \in BOOLEAN /\ line \in {{}} \cup {{r} : r \in SUBSET Loaded}

HandoverInv ==
  PlaceInv /\ HandlersInv /\ MemoryInv /\ NothingLeftBehind /\ ClocksInv /\ DataInv

USE DEF Places

-----------------------------------------------------------------------------

\* PLL1 at its setting: 64 MHz * 50 / (4 * 2).
LEMMA PLLAtSettings == factors = Settings => PLL = 400
  BY DEF Settings, PLL, HSI

LEMMA MeLoaded == \A i \in {1, 2, 3} : Images[i] \in Loaded
  BY ImagesAssumption DEF Loaded

\* Power-on, with anything in the RAM.
LEMMA HandoverInvInit == Init => HandoverInv
<1> SUFFICES ASSUME Init PROVE HandoverInv
  OBVIOUS
<1>1. PlaceInv
  BY DEF Init, PlaceInv, Launching
<1>2. HandlersInv
  BY DEF Init, HandlersInv, Me, TIM3Off, Launching, Early
<1>3. MemoryInv
  BY DEF Init, MemoryInv, Launching
<1>4. NothingLeftBehind
  BY DEF Init, NothingLeftBehind
<1>5. ClocksInv
  BY DEF Init, ClocksInv, ClocksOK, TIM3Off, OnHSI, Starting
<1>6. DataInv
  BY MeLoaded DEF Init, DataInv, Me
<1> QED
  BY <1>1, <1>2, <1>3, <1>4, <1>5, <1>6 DEF HandoverInv

\* One way through the code: nothing jumps out of it but resets and the launch.
LEMMA PlaceStep ==
  ASSUME PlaceInv, Next
  PROVE  PlaceInv'
<1>1. CASE SwitchDone \/ PLLSettles \/ Evict
  BY <1>1 DEF PlaceInv, Launching, core, ram, SwitchDone, PLLSettles, Evict
<1>2. CASE SystemReset \/ CoreReset
  BY <1>2 DEF PlaceInv, Launching, core, ram, SystemReset, CoreReset,
         ResetCore
<1>3. CASE Reset_Handler \/ SystemInitCFGR \/ SystemInitCR \/
          SystemInitDividers \/ SystemInitPLL \/ SystemInitVTOR
  BY <1>3 DEF PlaceInv, Launching, core, ram, Reset_Handler, SystemInitCFGR,
         SystemInitCR, SystemInitDividers, SystemInitPLL, SystemInitVTOR, Step
<1>4. CASE EnableCaches \/ HAL_Init \/ OscConfig \/ PLLConfig \/ PLLReady \/
          ClockDividers \/ ClockSwitch \/ ClockUpdate \/ ClockTimeout \/
          EnableIrq
  BY <1>4 DEF PlaceInv, Launching, core, ram, EnableCaches, HAL_Init,
         OscConfig, PLLConfig, PLLReady, ClockDividers, ClockSwitch,
         ClockUpdate, ClockTimeout, EnableIrq, InitTick, Step
<1>5. CASE UART_DeInit \/ UART_MspInit \/ UART_Init
  BY <1>5 DEF PlaceInv, Launching, core, ram, UART_DeInit, UART_MspInit,
         UART_Init, Step
<1>6. CASE TimHandleInit \/ TIM_MspInit \/ TIM_Start \/ HW_RNG_Init \/ Work \/
          HW_RNG_DeInit \/ SW_Watchdog_End \/ TIM_MspDeInit \/ Fail
  BY <1>6 DEF PlaceInv, Launching, core, ram, TimHandleInit, TIM_MspInit,
         TIM_Start, HW_RNG_Init, Work, HW_RNG_DeInit, SW_Watchdog_End,
         TIM_MspDeInit, Fail, Step
<1>7. CASE LaunchImage
  BY <1>7 DEF PlaceInv, Launching, core, ram, LaunchImage, Step
<1>8. CASE DisableCaches
  BY <1>8 DEF PlaceInv, Launching, core, ram, DisableCaches, Step
<1>9. CASE ClearDTCM
  BY <1>9 DEF PlaceInv, Launching, core, ram, ClearDTCM, Step
<1>10. CASE ClearSRAM
  BY <1>10 DEF PlaceInv, Launching, core, ram, ClearSRAM, Step
<1>11. CASE Jump
  BY <1>11 DEF PlaceInv, Launching, core, ram, Jump
<1> QED
  BY <1>1, <1>2, <1>3, <1>4, <1>5, <1>6, <1>7, <1>8, <1>9, <1>10, <1>11 DEF Next

\* Each image masks, unmasks and enables what it may.
LEMMA HandlersStep ==
  ASSUME PlaceInv, PlaceInv', HandlersInv, Next
  PROVE  HandlersInv'
<1>1. CASE SwitchDone \/ PLLSettles \/ Evict
  BY <1>1 DEF PlaceInv, HandlersInv, Launching, Early, Guarded, Me, core,
         ram, devices, SwitchDone, PLLSettles, Evict
<1>2. CASE SystemReset \/ CoreReset
  BY <1>2 DEF PlaceInv, HandlersInv, Launching, Early, Guarded, Me, core,
         ram, devices, SystemReset, CoreReset, ResetCore
<1>3. CASE Reset_Handler \/ SystemInitCFGR \/ SystemInitCR \/
          SystemInitDividers \/ SystemInitPLL \/ SystemInitVTOR
  BY <1>3 DEF PlaceInv, HandlersInv, Launching, Early, Guarded, Me, core,
         ram, devices, Reset_Handler, SystemInitCFGR, SystemInitCR,
         SystemInitDividers, SystemInitPLL, SystemInitVTOR, Step
<1>4. CASE EnableCaches \/ HAL_Init \/ OscConfig \/ PLLConfig \/ PLLReady \/
          ClockDividers \/ ClockSwitch \/ ClockUpdate \/ ClockTimeout \/
          EnableIrq
  BY <1>4 DEF PlaceInv, HandlersInv, Launching, Early, Guarded, Me, core,
         ram, devices, EnableCaches, HAL_Init, OscConfig, PLLConfig,
         PLLReady, ClockDividers, ClockSwitch, ClockUpdate, ClockTimeout,
         EnableIrq, InitTick, Step
<1>5. CASE UART_DeInit \/ UART_MspInit \/ UART_Init
  BY <1>5 DEF PlaceInv, HandlersInv, Launching, Early, Guarded, Me, core,
         ram, devices, UART_DeInit, UART_MspInit, UART_Init, Step
<1>6. CASE TimHandleInit
  BY <1>6 DEF PlaceInv, HandlersInv, Launching, Early, Guarded, Me, core,
         ram, devices, TimHandleInit, Step
<1>7. CASE TIM_MspInit
  BY <1>7 DEF PlaceInv, HandlersInv, Launching, Early, Guarded, Me, core,
         ram, devices, TIM_MspInit, Step
<1>8. CASE TIM_Start
  BY <1>8 DEF PlaceInv, HandlersInv, Launching, Early, Guarded, Me, core,
         ram, devices, TIM_Start, Step
<1>9. CASE HW_RNG_Init
  BY <1>9 DEF PlaceInv, HandlersInv, Launching, Early, Guarded, Me, core,
         ram, devices, HW_RNG_Init, Step
<1>10. CASE Work
  BY <1>10 DEF PlaceInv, HandlersInv, Launching, Early, Guarded, Me, core,
         ram, devices, Work, Step
<1>11. CASE HW_RNG_DeInit
  BY <1>11 DEF PlaceInv, HandlersInv, Launching, Early, Guarded, Me, core,
         ram, devices, HW_RNG_DeInit, Step
<1>12. CASE SW_Watchdog_End
  BY <1>12 DEF PlaceInv, HandlersInv, Launching, Early, Guarded, Me, core,
         ram, devices, SW_Watchdog_End, Step
<1>13. CASE TIM_MspDeInit
  BY <1>13 DEF PlaceInv, HandlersInv, Launching, Early, Guarded, Me, core,
         ram, devices, TIM_MspDeInit, Step
<1>14. CASE Fail
  BY <1>14 DEF PlaceInv, HandlersInv, Launching, Early, Guarded, Me, core,
         ram, devices, Fail, Step
<1>15. CASE LaunchImage \/ DisableCaches \/ ClearDTCM \/ ClearSRAM \/ Jump
  BY <1>15 DEF PlaceInv, HandlersInv, Launching, Early, Guarded, Me, core,
         ram, devices, LaunchImage, DisableCaches, ClearDTCM, ClearSRAM,
         Jump, Step
<1> QED
  BY <1>1, <1>2, <1>3, <1>4, <1>5, <1>6, <1>7, <1>8, <1>9, <1>10, <1>11,
     <1>12, <1>13, <1>14, <1>15 DEF Next

\* The launch clears what it says.
LEMMA MemoryStep ==
  ASSUME PlaceInv, MemoryInv, Next
  PROVE  MemoryInv'
<1>1. CASE SwitchDone \/ PLLSettles \/ Evict
  BY <1>1 DEF PlaceInv, MemoryInv, Launching, ram, mem, devices, SwitchDone,
         PLLSettles, Evict
<1>2. CASE SystemReset \/ CoreReset
  BY <1>2 DEF PlaceInv, MemoryInv, Launching, ram, mem, devices, SystemReset,
         CoreReset, ResetCore
<1>3. CASE Reset_Handler \/ SystemInitCFGR \/ SystemInitCR \/
          SystemInitDividers \/ SystemInitPLL \/ SystemInitVTOR
  BY <1>3 DEF PlaceInv, MemoryInv, Launching, ram, mem, devices,
         Reset_Handler, SystemInitCFGR, SystemInitCR, SystemInitDividers,
         SystemInitPLL, SystemInitVTOR, Step
<1>4. CASE EnableCaches \/ HAL_Init \/ OscConfig \/ PLLConfig \/ PLLReady \/
          ClockDividers \/ ClockSwitch \/ ClockUpdate \/ ClockTimeout \/
          EnableIrq
  BY <1>4 DEF PlaceInv, MemoryInv, Launching, ram, mem, devices,
         EnableCaches, HAL_Init, OscConfig, PLLConfig, PLLReady,
         ClockDividers, ClockSwitch, ClockUpdate, ClockTimeout, EnableIrq,
         InitTick, Step
<1>5. CASE UART_DeInit \/ UART_MspInit \/ UART_Init
  BY <1>5 DEF PlaceInv, MemoryInv, Launching, ram, mem, devices, UART_DeInit,
         UART_MspInit, UART_Init, Step
<1>6. CASE TimHandleInit \/ TIM_MspInit \/ TIM_Start \/ HW_RNG_Init \/ Work \/
          HW_RNG_DeInit \/ SW_Watchdog_End \/ TIM_MspDeInit \/ Fail
  BY <1>6 DEF PlaceInv, MemoryInv, Launching, ram, mem, devices,
         TimHandleInit, TIM_MspInit, TIM_Start, HW_RNG_Init, Work,
         HW_RNG_DeInit, SW_Watchdog_End, TIM_MspDeInit, Fail, Step
<1>7. CASE LaunchImage \/ DisableCaches \/ ClearDTCM \/ ClearSRAM \/ Jump
  BY <1>7 DEF PlaceInv, MemoryInv, Launching, ram, mem, devices, LaunchImage,
         DisableCaches, ClearDTCM, ClearSRAM, Jump, Step
<1> QED
  BY <1>1, <1>2, <1>3, <1>4, <1>5, <1>6, <1>7 DEF Next

\* And the image it launches only adds data of its own.
LEMMA NothingStep ==
  ASSUME PlaceInv, MemoryInv, NothingLeftBehind, Next
  PROVE  NothingLeftBehind'
<1>1. CASE SwitchDone \/ PLLSettles \/ Evict
  BY <1>1 DEF PlaceInv, MemoryInv, NothingLeftBehind, Launching, Me, ram,
         mem, devices, SwitchDone, PLLSettles, Evict
<1>2. CASE SystemReset \/ CoreReset
  BY <1>2 DEF PlaceInv, MemoryInv, NothingLeftBehind, Launching, Me, ram,
         mem, devices, SystemReset, CoreReset, ResetCore
<1>3. CASE Reset_Handler
  BY <1>3 DEF PlaceInv, MemoryInv, NothingLeftBehind, Launching, Me, ram,
         mem, devices, Reset_Handler, Step
<1>4. CASE SystemInitCFGR
  BY <1>4 DEF PlaceInv, MemoryInv, NothingLeftBehind, Launching, Me, ram,
         mem, devices, SystemInitCFGR, Step
<1>5. CASE SystemInitCR
  BY <1>5 DEF PlaceInv, MemoryInv, NothingLeftBehind, Launching, Me, ram,
         mem, devices, SystemInitCR, Step
<1>6. CASE SystemInitDividers
  BY <1>6 DEF PlaceInv, MemoryInv, NothingLeftBehind, Launching, Me, ram,
         mem, devices, SystemInitDividers, Step
<1>7. CASE SystemInitPLL
  BY <1>7 DEF PlaceInv, MemoryInv, NothingLeftBehind, Launching, Me, ram,
         mem, devices, SystemInitPLL, Step
<1>8. CASE SystemInitVTOR
  BY <1>8 DEF PlaceInv, MemoryInv, NothingLeftBehind, Launching, Me, ram,
         mem, devices, SystemInitVTOR, Step
<1>9. CASE EnableCaches \/ HAL_Init \/ OscConfig \/ PLLConfig \/ PLLReady \/
          ClockDividers \/ ClockSwitch \/ ClockUpdate \/ ClockTimeout \/
          EnableIrq
  BY <1>9 DEF PlaceInv, MemoryInv, NothingLeftBehind, Launching, Me, ram,
         mem, devices, EnableCaches, HAL_Init, OscConfig, PLLConfig,
         PLLReady, ClockDividers, ClockSwitch, ClockUpdate, ClockTimeout,
         EnableIrq, InitTick, Step
<1>10. CASE UART_DeInit \/ UART_MspInit \/ UART_Init
  BY <1>10 DEF PlaceInv, MemoryInv, NothingLeftBehind, Launching, Me, ram,
         mem, devices, UART_DeInit, UART_MspInit, UART_Init, Step
<1>11. CASE TimHandleInit \/ TIM_MspInit \/ TIM_Start \/ HW_RNG_Init \/ Work \/
          HW_RNG_DeInit \/ SW_Watchdog_End \/ TIM_MspDeInit \/ Fail
  BY <1>11 DEF PlaceInv, MemoryInv, NothingLeftBehind, Launching, Me, ram,
         mem, devices, TimHandleInit, TIM_MspInit, TIM_Start, HW_RNG_Init,
         Work, HW_RNG_DeInit, SW_Watchdog_End, TIM_MspDeInit, Fail, Step
<1>12. CASE LaunchImage \/ DisableCaches \/ ClearDTCM \/ ClearSRAM \/ Jump
  BY <1>12 DEF PlaceInv, MemoryInv, NothingLeftBehind, Launching, Me, ram,
         mem, devices, LaunchImage, DisableCaches, ClearDTCM, ClearSRAM,
         Jump, Step
<1> QED
  BY <1>1, <1>2, <1>3, <1>4, <1>5, <1>6, <1>7, <1>8, <1>9, <1>10, <1>11, <1>12 DEF Next

\* Whatever clock the code starts from, it reaches the one setting of PLL1.
LEMMA ClocksStep ==
  ASSUME PlaceInv, ClocksInv, Next
  PROVE  ClocksInv'
<1>1. CASE SwitchDone \/ PLLSettles \/ Evict
  BY <1>1 DEF PlaceInv, ClocksInv, ClocksOK, OnHSI, Starting, Launching,
         SysClock, rcc, core, devices, SwitchDone, PLLSettles, Evict
<1>2. CASE SystemReset \/ CoreReset
  <2>1. CASE SystemReset
    <3>1. tim3' \in [on : BOOLEAN, divisor : {1, 400 * 50}]
      BY <2>1 DEF SystemReset, TIM3Off
    <3> QED
      BY <2>1, <3>1 DEF ClocksInv, ClocksOK, OnHSI, Starting, SystemReset, ResetCore
  <2>2. CASE CoreReset
    <3>1. tim3' = tim3 /\ UNCHANGED rcc
      BY <2>2 DEF CoreReset, devices
    <3> QED
      BY <2>2, <3>1 DEF ClocksInv, ClocksOK, OnHSI, Starting, rcc, CoreReset, ResetCore
  <2> QED
    BY <1>2, <2>1, <2>2
<1>3. CASE Reset_Handler
  BY <1>3 DEF PlaceInv, ClocksInv, ClocksOK, OnHSI, Starting, Launching,
         SysClock, rcc, core, devices, Reset_Handler, Step
<1>4. CASE SystemInitCFGR
  BY <1>4 DEF PlaceInv, ClocksInv, ClocksOK, OnHSI, Starting, Launching,
         SysClock, rcc, core, devices, SystemInitCFGR, Step
<1>5. CASE SystemInitCR
  BY <1>5 DEF PlaceInv, ClocksInv, ClocksOK, OnHSI, Starting, Launching,
         SysClock, rcc, core, devices, SystemInitCR, Step
<1>6. CASE SystemInitDividers
  BY <1>6 DEF PlaceInv, ClocksInv, ClocksOK, OnHSI, Starting, Launching,
         SysClock, rcc, core, devices, SystemInitDividers, Step
<1>7. CASE SystemInitPLL
  BY <1>7 DEF PlaceInv, ClocksInv, ClocksOK, OnHSI, Starting, Launching,
         SysClock, rcc, core, devices, SystemInitPLL, Step
<1>8. CASE SystemInitVTOR
  BY <1>8 DEF PlaceInv, ClocksInv, ClocksOK, OnHSI, Starting, Launching,
         SysClock, rcc, core, devices, SystemInitVTOR, Step
<1>9. CASE EnableCaches
  BY <1>9 DEF PlaceInv, ClocksInv, ClocksOK, OnHSI, Starting, Launching,
         SysClock, rcc, core, devices, EnableCaches, Step
<1>10. CASE HAL_Init
  BY PLLAtSettings, <1>10 DEF PlaceInv, ClocksInv, ClocksOK, OnHSI, Starting, Launching,
         SysClock, rcc, core, devices, HAL_Init, InitTick, Step
<1>11. CASE OscConfig
  BY <1>11 DEF PlaceInv, ClocksInv, ClocksOK, OnHSI, Starting, Launching,
         SysClock, rcc, core, devices, OscConfig, Step
<1>12. CASE PLLConfig
  BY <1>12 DEF PlaceInv, ClocksInv, ClocksOK, OnHSI, Starting, Launching,
         SysClock, rcc, core, devices, PLLConfig, Step
<1>13. CASE PLLReady
  BY <1>13 DEF PlaceInv, ClocksInv, ClocksOK, OnHSI, Starting, Launching,
         SysClock, rcc, core, devices, PLLReady, Step
<1>14. CASE ClockDividers
  BY <1>14 DEF PlaceInv, ClocksInv, ClocksOK, OnHSI, Starting, Launching,
         SysClock, rcc, core, devices, ClockDividers, Step
<1>15. CASE ClockSwitch
  BY <1>15 DEF PlaceInv, ClocksInv, ClocksOK, OnHSI, Starting, Launching,
         SysClock, rcc, core, devices, ClockSwitch, Step
<1>16. CASE ClockUpdate
  BY PLLAtSettings, <1>16 DEF PlaceInv, ClocksInv, ClocksOK, OnHSI, Starting, Launching,
         SysClock, rcc, core, devices, ClockUpdate, InitTick, Step
<1>17. CASE ClockTimeout
  BY <1>17 DEF PlaceInv, ClocksInv, ClocksOK, OnHSI, Starting, Launching,
         SysClock, rcc, core, devices, ClockTimeout
<1>18. CASE EnableIrq
  BY <1>18 DEF PlaceInv, ClocksInv, ClocksOK, OnHSI, Starting, Launching,
         SysClock, rcc, core, devices, EnableIrq, Step
<1>19. CASE UART_DeInit \/ UART_MspInit \/ UART_Init
  BY <1>19 DEF PlaceInv, ClocksInv, ClocksOK, OnHSI, Starting, Launching,
         SysClock, rcc, core, devices, UART_DeInit, UART_MspInit, UART_Init,
         Step
<1>20. CASE TimHandleInit
  BY <1>20 DEF PlaceInv, ClocksInv, ClocksOK, OnHSI, Starting, Launching,
         SysClock, rcc, core, devices, TimHandleInit, Step
<1>21. CASE TIM_MspInit
  BY <1>21 DEF PlaceInv, ClocksInv, ClocksOK, OnHSI, Starting, Launching,
         SysClock, rcc, core, devices, TIM_MspInit, Step
<1>22. CASE TIM_Start
  BY <1>22 DEF PlaceInv, ClocksInv, ClocksOK, OnHSI, Starting, Launching,
         SysClock, rcc, core, devices, TIM_Start, Step
<1>23. CASE HW_RNG_Init
  BY <1>23 DEF PlaceInv, ClocksInv, ClocksOK, OnHSI, Starting, Launching,
         SysClock, rcc, core, devices, HW_RNG_Init, Step
<1>24. CASE Work
  BY <1>24 DEF PlaceInv, ClocksInv, ClocksOK, OnHSI, Starting, Launching,
         SysClock, rcc, core, devices, Work, Step
<1>25. CASE HW_RNG_DeInit
  BY <1>25 DEF PlaceInv, ClocksInv, ClocksOK, OnHSI, Starting, Launching,
         SysClock, rcc, core, devices, HW_RNG_DeInit, Step
<1>26. CASE SW_Watchdog_End
  <2>1. tim3' \in [on : BOOLEAN, divisor : {1, 400 * 50}]
    BY <1>26 DEF ClocksInv, ClocksOK, SW_Watchdog_End
  <2> QED
    BY <1>26, <2>1 DEF ClocksInv, ClocksOK, OnHSI, Starting, rcc, core, SW_Watchdog_End, Step
<1>27. CASE TIM_MspDeInit
  BY <1>27 DEF PlaceInv, ClocksInv, ClocksOK, OnHSI, Starting, Launching,
         SysClock, rcc, core, devices, TIM_MspDeInit, Step
<1>28. CASE Fail
  BY <1>28 DEF PlaceInv, ClocksInv, ClocksOK, OnHSI, Starting, Launching,
         SysClock, rcc, core, devices, Fail, Step
<1>29. CASE LaunchImage \/ DisableCaches \/ ClearDTCM \/ ClearSRAM \/ Jump
  BY <1>29 DEF PlaceInv, ClocksInv, ClocksOK, OnHSI, Starting, Launching,
         SysClock, rcc, core, devices, LaunchImage, DisableCaches, ClearDTCM,
         ClearSRAM, Jump, Step
<1> QED
  BY <1>1, <1>2, <1>3, <1>4, <1>5, <1>6, <1>7, <1>8, <1>9, <1>10, <1>11,
     <1>12, <1>13, <1>14, <1>15, <1>16, <1>17, <1>18, <1>19, <1>20, <1>21,
     <1>22, <1>23, <1>24, <1>25, <1>26, <1>27, <1>28, <1>29 DEF Next

\* Data is always some image's.
LEMMA DataStep ==
  ASSUME PlaceInv, PlaceInv', DataInv, Next
  PROVE  DataInv'
<1>1. CASE SwitchDone \/ PLLSettles \/ Evict
  BY <1>1 DEF PlaceInv, DataInv, Me, ram, mem, core, devices, SwitchDone,
         PLLSettles, Evict
<1>2. CASE SystemReset \/ CoreReset
  BY MeLoaded, <1>2 DEF PlaceInv, DataInv, Me, ram, mem, core, devices, SystemReset,
         CoreReset, ResetCore
<1>3. CASE Reset_Handler \/ SystemInitCFGR \/ SystemInitCR \/
          SystemInitDividers \/ SystemInitPLL \/ SystemInitVTOR
  BY MeLoaded, <1>3 DEF PlaceInv, DataInv, Me, ram, mem, core, devices, Reset_Handler,
         SystemInitCFGR, SystemInitCR, SystemInitDividers, SystemInitPLL,
         SystemInitVTOR, Step
<1>4. CASE EnableCaches \/ HAL_Init \/ OscConfig \/ PLLConfig \/ PLLReady \/
          ClockDividers \/ ClockSwitch \/ ClockUpdate \/ ClockTimeout \/
          EnableIrq
  BY <1>4 DEF PlaceInv, DataInv, Me, ram, mem, core, devices, EnableCaches,
         HAL_Init, OscConfig, PLLConfig, PLLReady, ClockDividers,
         ClockSwitch, ClockUpdate, ClockTimeout, EnableIrq, InitTick, Step
<1>5. CASE UART_DeInit \/ UART_MspInit \/ UART_Init
  BY <1>5 DEF PlaceInv, DataInv, Me, ram, mem, core, devices, UART_DeInit,
         UART_MspInit, UART_Init, Step
<1>6. CASE TimHandleInit
  BY <1>6 DEF PlaceInv, DataInv, Me, ram, mem, core, devices, TimHandleInit,
         Step
<1>7. CASE TIM_MspInit
  BY <1>7 DEF PlaceInv, DataInv, Me, ram, mem, core, devices, TIM_MspInit,
         Step
<1>8. CASE TIM_Start
  BY <1>8 DEF PlaceInv, DataInv, Me, ram, mem, core, devices, TIM_Start, Step
<1>9. CASE HW_RNG_Init
  BY <1>9 DEF PlaceInv, DataInv, Me, ram, mem, core, devices, HW_RNG_Init,
         Step
<1>10. CASE Work
  <2> DEFINE held == IF line = {} THEN sram ELSE UNION line
  <2>1. held \in SUBSET Loaded
    BY DEF DataInv
  <2>2. Me \in Loaded
    BY MeLoaded DEF PlaceInv, Me
  <2>3. line' = {held \cup {Me}}
    BY <1>10 DEF Work
  <2>4. held \cup {Me} \in SUBSET Loaded
    BY <2>1, <2>2
  <2> HIDE DEF held
  <2> QED
    BY <1>10, <2>2, <2>3, <2>4 DEF DataInv, core, devices, Work, Step
<1>11. CASE HW_RNG_DeInit
  BY <1>11 DEF PlaceInv, DataInv, Me, ram, mem, core, devices, HW_RNG_DeInit,
         Step
<1>12. CASE SW_Watchdog_End
  BY <1>12 DEF PlaceInv, DataInv, Me, ram, mem, core, devices,
         SW_Watchdog_End, Step
<1>13. CASE TIM_MspDeInit
  BY <1>13 DEF PlaceInv, DataInv, Me, ram, mem, core, devices, TIM_MspDeInit,
         Step
<1>14. CASE Fail
  BY <1>14 DEF PlaceInv, DataInv, Me, ram, mem, core, devices, Fail, Step
<1>15. CASE LaunchImage \/ DisableCaches \/ ClearDTCM \/ ClearSRAM \/ Jump
  BY <1>15 DEF PlaceInv, DataInv, Me, ram, mem, core, devices, LaunchImage,
         DisableCaches, ClearDTCM, ClearSRAM, Jump, Step
<1> QED
  BY <1>1, <1>2, <1>3, <1>4, <1>5, <1>6, <1>7, <1>8, <1>9, <1>10, <1>11,
     <1>12, <1>13, <1>14, <1>15 DEF Next

LEMMA HandoverInvNext == HandoverInv /\ [Next]_vars => HandoverInv'
<1> SUFFICES ASSUME HandoverInv, [Next]_vars PROVE HandoverInv'
  OBVIOUS
<1>1. CASE Next
  BY <1>1, PlaceStep, HandlersStep, MemoryStep, NothingStep, ClocksStep, DataStep
     DEF HandoverInv
<1>2. CASE UNCHANGED vars
  BY <1>2 DEF vars, rcc, core, devices, ram, mem, HandoverInv, PlaceInv, HandlersInv,
         MemoryInv, NothingLeftBehind, ClocksInv, ClocksOK, DataInv, Me
<1> QED
  BY <1>1, <1>2

\* The invariant holds, whatever the images are called.
THEOREM HandoverInvariant == Spec => []HandoverInv
  BY HandoverInvInit, HandoverInvNext, PTL DEF Spec

-----------------------------------------------------------------------------
(* The properties *)

\* Every variable keeps to its values.
THEOREM HandoverTypes == Spec => []TypeOK
<1>1. HandoverInv => TypeOK
  BY DEF HandoverInv, PlaceInv, ClocksInv, ClocksOK, DataInv, TypeOK
<1> QED
  BY <1>1, HandoverInvariant, PTL

\* No interrupt that can be taken finds another image's handler, or variables and
\* handles that aren't set up.
THEOREM HandlersAreReady == Spec => []HandlersReady
<1>1. HandoverInv => HandlersReady
  BY DEF HandoverInv, HandlersInv, HandlersReady, SysTickServed, TIM3Served, Early, Guarded,
         Launching
<1> QED
  BY <1>1, HandoverInvariant, PTL

\* A launched image finds nothing of those before it, now or when a line of the
\* D-cache is written back.
THEOREM NothingIsLeftBehind == Spec => []NothingLeftBehind
<1>1. HandoverInv => NothingLeftBehind
  BY DEF HandoverInv
<1> QED
  BY <1>1, HandoverInvariant, PTL

\* The buses are never too fast, and the core clock is what the code takes it for.
THEOREM ClocksAreRight == Spec => []ClocksRight
<1>1. ASSUME HandoverInv PROVE ClocksRight
  <2>1. sws = "PLL" => SysClock = 400
    BY <1>1, PLLAtSettings DEF HandoverInv, ClocksInv, SysClock
  <2>2. sws = "HSI" => SysClock = 64
    BY DEF SysClock, HSI
  <2>3. prompt => HCLK <= 200 /\ PCLK1 <= 100
    BY <1>1, <2>1, <2>2 DEF HandoverInv, ClocksInv, ClocksOK, HCLK, PCLK1
  <2>4. pc \notin Starting => HCLK = 200 /\ PCLK1 = 100 /\ TimerClock = 200
    BY <1>1, <2>1 DEF HandoverInv, ClocksInv, HCLK, PCLK1, TimerClock
  <2> QED
    BY <1>1, <2>1, <2>3, <2>4 DEF HandoverInv, ClocksInv, ClocksRight, Starting
<1> QED
  BY <1>1, HandoverInvariant, PTL

=============================================================================
