SPECIFICATION Spec
CONSTANTS
    Drivers = {"hello", "simple_timer", "gpio_driver", "gpio_irq", "globalmem", "globalfifo", "multi_globalmem", "second", "oled_spi", "oled_i2c", "uio"}
    MaxLoads = 3
    MaxFaults = 1
    MaxBusy = 2
INVARIANTS
    UnloadReleasesAll
    FailedLoadLeaksNothing
PROPERTIES
    UsersFirst
    SparesOthers
CHECK_DEADLOCK FALSE
