\* Two Thread objects and two pthread_t values, so that an id freed by one
\* object's thread can be handed to the other's; main may return.
CONSTANTS
    Objects = {o1, o2}
    Tids = {i1, i2}
    NoTid = NoTid
    NoObj = NoObj
    MainReturns = TRUE
    o1 = o1
    o2 = o2
    i1 = i1
    i2 = i2
SPECIFICATION Spec
PROPERTY StopTakesEffect
PROPERTY DestroyEndsThread
