------------------------------ MODULE MCRBoot ------------------------------
EXTENDS RBootRefinement

\* A ROM turns the GPIO boot on, with its SDK erase; or it drops the last slot
\* from the table and leaves the numbers that select it as they are.
MCAppSettings ==
  {[mode |-> {"GPIO_ROM", "GPIO_ERASES_SDKCONFIG"}, current_rom |-> 0,
    gpio_rom |-> MaxRoms - 1, count |-> MaxRoms],
   [mode |-> {}, current_rom |-> MaxRoms - 1, gpio_rom |-> MaxRoms - 1,
    count |-> MaxRoms - 1]}
=============================================================================
