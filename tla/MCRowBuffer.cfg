SPECIFICATION Spec
CONSTANTS
    Capacities <- const_Capacities
    MaxRows = 5
INVARIANTS TypeOK WindowIsContiguous OlderRowsAreSaved RowsKeepTheirValues
PROPERTIES NextRowFollows ImplementsWindow
CHECK_DEADLOCK FALSE
