SPECIFICATION CSpec
CONSTANTS Threads = {"irq", "drv"} Width = 2
CHECK_DEADLOCK FALSE
PROPERTY CompleteReturns
