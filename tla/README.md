# A verification project for ossanRental

`ossanRental` is a Java servlet application (Tomcat, JSP, MySQL, a little
Hibernate) for renting "ossans", middle-aged men who give their time by the
hour. Visitors browse ossans and articles, fill a shopping cart and order;
ossans maintain their own profile and articles; administrators maintain members
and articles. Below, `J` is `src/ossanRental/src/main/java/` and `W` is
`src/ossanRental/src/main/webapp/`.

## Inventory

| Component | State | Operations | Talks to |
|---|---|---|---|
| Shopping cart (`J_04_ShoppingCart/model/ShoppingCart.java`, `BuyOssanServlet`, `UpdateBookServlet`, `AbortServlet`, `CheckoutServlet`) | session attribute `ShoppingCart`: a `LinkedHashMap` from ossan to quantity; a field `session` of `UpdateBookServlet` | buy, change quantity, delete item, abandon, check out | the session, order processing |
| Order processing (`ProcessOrderServlet`, `OrderServiceImpl`, `OrderDaoImpl`) | tables `ossanorders`, `ossanorderitems` | confirm or cancel an order; one JDBC transaction per order | cart, database |
| Connection pool and order queries (`W META-INF/context.xml`, `OrderDaoImpl.getOrder/getAllOrders`, `J_05_orderProcess`) | at most 8 connections, wait of 5 s | borrow, nested borrow, return, time out | every DAO |
| Session lifetime (`logout.jsp`, `LogoutBean`, 30 minutes in `web.xml`) | `HttpSession` | invalidate | everything that holds a session |
| Login, roles, filter (`J_02_login`) | session attributes `LoginOK`, `OssanSessionPKey`, `OssanLoginOK`, `AdminLoginOK`, `requestURI`; fields of the filter | log in (three roles), judge a request, recover a password | database, e-mail |
| Registration (`J_01_register`, `OssanInsertServlet`) | table `memberossan`; fields `pattern`, `matcher` | check the account, insert | database |
| Member maintenance (`J_20_productMaintain`) and personal maintenance (`J_10_personalMaintain`) | table `memberossan`; session attribute `bean`; servlet fields `bb`, `pageNo` | read into a form, update, delete | database |
| Listing and paging (`J_03_listOssans`, `DisplayMaintainProducts`, `ListArticle_Visitor`) | servlet field `pageNo`, the cookie `nonuserpageNo` per browser | page through, show one | database |
| Articles (`J_06_article`) | table of articles; session attributes `article`, `products_DPP` | list, write, edit, delete | database |
| E-mail, start-up and seeding, image delivery, JSP and assets | - | - | - |

What is hard here: Tomcat runs every request on a thread of its own, requests of
one session overlap (two tabs, a double click), one instance of each servlet
serves all threads, several servlets keep request data in instance fields, and
nothing synchronizes. `PROJECT.json` lists under "hazards" each place where this
bites, with the properties that cover it or the reason why none does. Many of them do
go wrong. Four are shown by runs that violate what a comment or a message of the code says;
the others are listed below, with the steps of the model that lead there.

What makes each component correct:

- cart and order: a stored order is whole; its total is that of its items; the
  cart leaves the session only when its order is stored, and takes nothing
  unordered with it; no request touches another session's cart.
- pool: no connection is used twice or kept; requests that wait for each other
  are released; every request is answered.
- login and filter: a request is served or sent to the login by *its own* path and
  session, and after the login goes to a page its browser asked for; the two keys a
  login leaves in the session are one member's.
- registration: one account, one row, and a password of the prescribed form.
- maintenance: a form saves the member it showed, a member sees nobody else, a
  deletion names the member it deletes.
- paging: page and page number are those that were asked for; a quote stands beside
  its own ossan; a walk through the pages misses nothing; links lead to pages that
  exist.
- articles: a member's list and form lead to his own articles only; number and text of a
  form belong to one article; what is deleted stays deleted.

## Modules

| Module | What it is |
|---|---|
| `ShoppingCart` | the cart's operations as operators on a function from ossans to quantities |
| `OrderProcess` | the cart's servlets, the session, `ProcessOrderServlet` and the JDBC transaction as interleaved steps of request threads |
| `AtomicOrders` | the abstract promise of `OrderService.persistOrder`: an order is asked for, then becomes visible all at once or never |
| `ConnPool` | borrowing and returning connections, with the nested `getConnection()` of `getAllOrders` |
| `MemberMaintenance` | the forms of administrators and members over the table of members: the session attribute `bean`, the fields `bb`, update and deletion |
| `LoginSession` | accounts, registration, login and logout, `LoginCheckingFilter` with its shared fields, and what the forms do to accounts |
| `AccountRegistry` | what the table of members amounts to: whoever was told that an account is free may register it, each entry has a number of its own, and the administrator stays |
| `Paging` | the lists of ossans and articles page by page, over tables in which rows come and go |
| `Articles` | posting, editing and deleting articles through windows that share the session of their browser and outlive it |
| `MC_OrderProcess`, `MC_MemberMaintenance`, `MC_LoginSession`, `MC_Paging`, `MC_Articles` | symmetry sets and views for model checking |
| `OrderProcess_proofs`, `ConnPool_proofs`, `MemberMaintenance_proofs`, `LoginSession_proofs`, `Paging_proofs`, `Articles_proofs` | the theorems |
| `SerialOrders_proofs` | the theorems about orders that nothing disturbs |
| `ItemSums` | facts about sums over finite sets, for `SerialOrders_proofs` |

`OrderProcess` uses `ShoppingCart` and is shown to implement `AtomicOrders`;
`LoginSession` is shown to implement `AccountRegistry`. Otherwise the modules stand alone: they meet only in the session and in the table of members, and
each one models what the others do to its part (a logout, a deleted member, a changed
account) as actions of its own.

Several modules have a constant for a habit of users or of the database that the code
does not enforce. `OrderProcess` and `MemberMaintenance` have `Serial` (a browser waits
for its answer), `MemberMaintenance` and `Paging` `Turns` (requests of one servlet do not
overlap), `Articles` `Turns` (requests of one browser do not overlap), `LoginSession`
`Waits` (a browser waits for the answer to a login before it logs in again), `Paging`
`KeyOrder` (a query that asks for no order gives rows by their keys). A habit serves to
say what holds for users who keep to it. What happens where they do not is the business of
the runs that violate a property and of the list under "What goes wrong" below. Where a property needs a habit, or that some call does not fail, its
comment says so and its theorem has it as a hypothesis.

### OrderProcess

A request thread `r` has a place `pc[r]` and local variables `loc[r]` (its
session, the cart it holds a reference to, the item, what a loop has still to
visit, the total, the items copied so far, the number of its order). A handler
is cut into actions where it reads or writes something another thread can
change; what lies between is one action.

| Code | Actions |
|---|---|
| `BuyOssanServlet` 35-42 | `BuyArrive`, `BuyNewCart`, `BuyNewCartFails` |
| `ShoppingCart.addToCart` | `AddNothing`, `AddLook`, `AddPut`, `AddSum` |
| `UpdateBookServlet` | `UpdateArrive`, `UpdateNoSession`, `UpdateCheck`, `UpdateGet`, `UpdateDelete`, `UpdateModify` |
| `AbortServlet`; `logout.jsp` and the session timeout | `Abort`; `Invalidate` |
| `ProcessOrderServlet` | `OrderArrive`, `OrderCancel`, `OrderConfirm`, `SumItem`, `CopyStart`, `CopyItem`, `IterationFails`, `ClearCart` |
| `OrderServiceImpl.persistOrder` | `BeginTx`, `ConnectFails`, `Commit`, `CommitFails`, `Rollback`, `RollbackFails`, `RollbackRefused`, `CloseDone`, `CloseFailed`, `CloseThrows` |
| `OrderDaoImpl.insertOrder` | `InsertOrderRow`, `InsertItemRow`, `InsertFails` |

The database is external. A connection has the rows it has written and not
committed (`pend`) and its auto-commit mode (`auto`); `rows` is what every other
client sees. `setAutoCommit(true)` in the `finally` block commits what is
pending, as JDBC says. A call named in `Faults` may throw; a failed `commit()`
has taken effect or not. A `rollback()` that throws has either cost the connection, whose
writes the server discards (fault `rollback`, `RollbackFails`), or left it open with what
was written, and the `finally` block goes on with it (fault `refused`,
`RollbackRefused`). A request that comes without a session is `UpdateNoSession` (kind
`stray`): it stores null in the field of `UpdateBookServlet`, reads the field again, and
goes on with the session another request has stored there meanwhile.

Abstractions:

- A cart is a function from ossans to a quantity or `Null`. Prices are constants
  in the code (300, discount 1), so an `OrderItem` is its quantity. Quantities
  are Java `int`s that wrap around at `MaxInt` (scaled down for TLC).
- `LinkedHashMap` is not thread-safe; its single operations are taken to be
  atomic and sequentially consistent. Its iterators are fail-fast: `stale[q]`
  records that the keys changed under the iterator of `q`, or that the
  `OrderItem` that `q` has fetched is no longer the one in the map.
- `addToCart` looks the key up twice (lines 22 and 26) and `modifyQty` and
  `deleteBook` likewise; a lookup and the one that follows it are one step. An
  `OrderItem` deleted between them gives a `NullPointerException`, which like the
  merged outcome leaves the cart as it is.
- `getSession(false)` and the first `getAttribute` of a handler are one step,
  except in `UpdateBookServlet`, where the field makes the difference visible.
- In `UpdateBookServlet` a missing cart (a redirect) and a field that is null or holds a
  dead session by then (an exception) end the handler alike, and are one case of
  `UpdateGet`.
- A session that was invalidated does not come back: the browser's next session
  is another member of `Sessions`.
- The error text that a failed order puts in the session is left out; an
  unparsable parameter ends a handler before it changes anything, except that
  `BuyOssanServlet` may have created an empty cart, which is reached by buying
  quantity 0.
- `persistOrder`'s checks of stock and unpaid amount, which the comment of
  `OrderService` (lines 10-13) announces, are commented out in the code and are
  not in the model.

### ConnPool

Three kinds of requests borrow: `one` (a DAO method with one connection in its
try-with-resources), `save` (`persistOrder`) and `list` (`getAllOrders`, which
holds its connection while it calls `getOrder` for each order). `own[r]` are the
connections of `r`, `lost` those that nobody holds and nobody will return: in the
`finally` block of `persistOrder` an exception of `setAutoCommit(true)` skips
`close()`. A request that waits times out only when no connection is free; a
timeout that fires at the moment a connection becomes free is the same timeout a
moment earlier.

### MemberMaintenance

| Code | Actions |
|---|---|
| `OssanPreUpdateServlet`, `PersonalPreUpdateServlet` and the JSP they forward to | `OssanPreUpdate`, `PersonalPreUpdate`; `Render` |
| `PersonalPreUpdateServlet2` and its JSP | `PersonalPreUpdate2`; `Render` |
| `OssanUpdateServlet` | `OssanSubmit`, `Refuse`, `OssanTakeKey`, `OssanSave`, `UpdateFails` |
| `PersonalUpdateServlet` | `PersonalSubmit`, `Refuse`, `PersonalTakeKey`, `PersonalSave`, `PersonalSetBean`, `UpdateFails` |
| `PersonalUpdateServlet2` | `QuoteSubmit`, `Refuse`, `QuoteTakeKey`, `QuoteSave`, `QuoteSetBean`, `UpdateFails` |
| `OssanDeleteServlet` | `OssanDelete` |
| `LoginServletWithAdmin` (a member); `logout.jsp` and the session timeout | `Login`; `Expire` |

The three update servlets have one structure: copy the attribute `bean` to the
field `bb`, parse the form, refuse it or take the key from `bb`, update. `Open`,
`Submit` and `TakeKey` are the parts they share, with the form as a parameter; a
servlet has its own `bb[form]`.

Abstractions:

- A profile, and a quote with its introduction, is the key of the member it
  describes. What a user types into a form describes the member the form shows,
  and nobody fills in a form that came without data.
- A browser shows one page at a time. With two tabs, the form of the first is
  saved into the member of the second; that is how the code uses the attribute.
- The query of a form and `setAttribute` are one step: between them a thread
  holds a row nobody else can see, so only the order of two overlapping requests
  of one session is affected, which the two steps that remain still give.
- A session does not end while a request of it is under way. The rows of
  administrators in `MemberOssan` are not in the model.
- `Turns` says that requests of one form, that is of the servlets which share one
  field `bb` or one page, do not overlap; those of different forms may.
- When a form is refused, its `pKey` is no longer a number (`OssanUpdate.jsp`
  gets no such parameter back), and a deletion from it fails without effect.

### LoginSession

| Code | Actions |
|---|---|
| `LoginCheckingFilter` | `Arrive`, `Judge`, `Deny` |
| a page that only shows something, an early failure | `Answer` |
| `RegisterServletMP` | `RegisterSubmit`, `RegisterJudge`, `RegisterExists`, `RegisterSave`, `DatabaseFails` |
| `LoginServletWithAdmin` | `LoginFind`, `LoginAdmin`, `LoginKey`, `LoginMember`, `LoginSetKey`, `LoginFails` |
| `logout.jsp`; the session timeout | `Logout`; `Expire` |
| `OssanInsertServlet` | `OssanInsert` |
| `OssanUpdateServlet`, `PersonalUpdateServlet` | `OssanUpdate`, `PersonalUpdate`, which share `SaveForm` |
| `OssanDeleteServlet` | `OssanDelete` |

A request is at the filter until it is judged, then at the servlet of its page
(`At(r, p)`). The fields `servletPath` and `requestURI` of the filter are `path` and
`uri`, the field of `RegisterServletMP` is `matcher`. `attr[s]` has the attributes
that say who is logged in: the member in `LoginOK`, the key in `OssanSessionPKey`,
whether `AdminLoginOK` is set, and `requestURI`. A row has an account, what is stored
for its password and whether it is an administrator's. Two parts of a row are history:
`checked` is the `seqNo` that was next when the registration looked its account up,
`moved` says that the account has been changed since the row was stored.

Requests of all sessions interleave at every step, those in the filter and in
`RegisterServletMP` included. Only `Waits` restricts them, and only logins.

`AccountRegistry` is a set of numbered entries and, for every client, the account it was
told is free. Looking an account up and registering it are two steps of it as they are two
statements in the code, so it does not say that an account has one entry; it says what is
left: who registers was told that the account is free, stores a hash, and gets a new
number; the administrator's form stores any account; entries are edited and removed, but
not the administrator's. The mapping (`Entries`, `Told`) takes the account, the number and
the password of every row, and the account of every registration between check and
insertion. `RegisterExists` is `Look`, `RegisterSave` is `Register`, a failure before it is
`Forget`, `OssanInsert` is `Insert`, the two forms are `Edit`, `OssanDelete` is `Remove`,
and all else is a stutter.

Abstractions:

- A stored password is the text that was typed and whether it is the hash of it;
  hashing is injective. That is what tells a registered member, whose password
  `RegisterServletMP` hashes, from one whose password a form stored as it was typed.
- `matches()` on the shared matcher is one step: what an overlapping use does inside
  `java.util.regex.Matcher` is not modelled, only whose password it holds.
- The filter sets `servletPath` and later `requestURI`; the second assignment and the
  reading of the first field in `mustLogin()` are one step. Both are still apart from
  the first.
- A session is created when its first request arrives. `logout.jsp` is one step.
- `checkAdmin()` and `checkIDPassword()` are one step: no form reaches the row of an
  administrator.
- The cookies of the login form (`FindUserPassword` fills it in), the attribute
  `timeOut` and the texts `AdminLoginOKString` and `OssanLoginOK` are left out: no
  decision depends on them.
- Seeded ossans are like registered ones and stored by `RegisterSave` as any other.

### Paging

| Code | Actions |
|---|---|
| `RetrieveOssanProducts` (list `ossans`), `RetrieveOssanProductsNorth` (`north`), `DisplayMaintainProducts` (`maintain`), `ListArticle_Visitor` (`articles`) | `Ask`, `FirstQuery`, `SecondQuery`, `SetNumber`, `NoSession`, `Show`, `QueryFails` |
| the links of the JSP pages | `FirstLink`, `PrevLink`, `NextLink`, `LastLink` |
| the menu | `Menu` |
| the tables `MemberOssan` and `article` | `Insert`, `Delete` |

The four servlets share one structure: put the parameter (or the cookie, or 1) into
the field `pageNo`, run one or two queries that read it, put the number and the
total into the request, forward to the page. They differ in which queries they run
and in what order, in the cookie, which only `ossans` and `north` have, and in when the
session is looked at. `loc[r].cut` and `missed[v]` are history: whether a row was deleted
during the request, and which rows a visitor who has followed "next" from page 1 on
has not seen yet.

Abstractions:

- A row is its number. A query returns the set of rows of the page; `Index` gives the
  position by which JSP puts a quote beside an ossan.
- Ossans are cut by `ROW_NUMBER()` over rising keys, articles over falling ones.
  `getPageOssans` in HQL names no order; `KeyOrder` says that the database gives rows
  by their keys, and without it any rows may come.
- After a deletion the page somebody is on may lie behind the last one. The pages then
  have links to pages behind it without end, an empty list has a link to page 2 and
  its last page is 0. Nothing in the repository speaks of it, so `LinksStayInside` is
  about tables from which nothing was deleted, and this is recorded here.

### Articles

| Code | Actions |
|---|---|
| `ListArticle_Osson` and `PersonalArticle.jsp` | `OpenMine`, `Follow`, `ListQuery`, `ShowMine`, `ShowText`, `ShowForm` |
| `ModifyArticle` | `EditButton`, `DeleteButton`, `Find`, `Keep`, `Delete` |
| `UpdateArticle` | `SendForm`, `SendNew`, `Update`, `Clear`, `Save` |
| `ListArticle_Admin` and the JSP it redirects to | `OpenAll`, `PurgeButton`, `Purge`, `ListAll` |
| an exception in any of them | `Fail` |
| `LoginServletWithAdmin`; `logout.jsp` and the timeout | `Login`; `Logout` |

A window shows a list or a form and waits for its answers; the windows of a browser
share its session with the attributes `LoginOK`, `article` and `products_DPP`. A browser
has one session after the other: `Logout` empties the attributes and leaves every
window the page it shows, whose buttons go on to work in the next session, and the
requests that are under way with a session that is over (`alive`). `ModifyArticle` asks for no login and
`ListArticle_Admin` for no administrator (the filter protects `/_20_productMaintain/*`
only), so neither do `EditButton`, `DeleteButton`, `OpenAll` and `PurgeButton`; the two
servlets that use `LoginOK` fail without it. An article is its number, its author and
the number of the article its text was written for. `of` is history: the member from whose
list a window, an edit or a request has the article, `Null` for the list of all.

Abstractions:

- A page of a list is any subset of what the query selects (the page number is
  left out, see below). `UpdateArticle` with and without a new image is one action.
- `fileToBlob` failing in `UpdateArticle` (the `SQLException` caught at lines 95-97,
  after which the code goes on) is left out.
- An edit that was asked for in one window may be cleared by the answer to another,
  and of two forms for one article the last to be saved wins. Both are in the model;
  nothing in the repository promises otherwise.

## Runs

| Run | Question | Bounds |
|---|---|---|
| `order_serial` | two browsers that wait for their answers: neither touches the other's cart, what is cleared is what was ordered, totals match items, an error means nothing was stored | 2 sessions, 2 threads, 2 ossans, quantities 1-2, faults connect, sql, rollback |
| `order_one_browser` | one browser, every operation of the cart, requests without a session, two orders in a row: cleared is what was ordered, and all of it is stored | 1 session, 1 thread, 2 ossans, quantities 0-2, all faults |
| `order_overlap` | overlapping requests of one session, double submit: atomic, cleared only when stored, implements `AtomicOrders` | 1 session, 2 threads, 2 ossans, all faults but refused |
| `order_lost_ack` | (violation) an error means nothing was stored, when the answer of `commit()` may be lost | fault commit |
| `order_wrong_cart` | (violation) `UpdateBookServlet` works on its own session's cart | 2 sessions, 2 threads, requests without a session |
| `pool` | nothing shared, nothing kept, no circular wait while enough connections are usable, every request is answered when they are not | 3 requests, 4 connections of which any number gets lost, lists of up to 2 orders |
| `member_two_browsers` | forms show, save and delete the right member, whoever used the browser before, and success is announced to him whose row has it | 2 members, 2 threads, 2 browsers: a member's, and one used by the administrator and members in turn |
| `member_wrong_row` | (violation) a member told of success has had his own row changed | 2 members at 2 browsers, 2 threads |
| `login` | all requests overlap but two logins: an account is registered twice only by requests that overlap, both keys of a login name rows of its account, implements `AccountRegistry` | 1 session, 2 threads, 2 accounts, 2 passwords of which one is strong, 3 rows |
| `login_wrong_path` | (violation) a request is judged by its own path | 2 sessions, 2 threads |
| `paging` | quotes beside their ossans, a walk misses nothing, links stay inside | 2 visitors, 2 threads, 4 lists of which 2 are open, 2 rows a page, 2 to 3 rows, 1 deletion |
| `articles` | a member's pages lead to no other member's article, texts stay with their articles, what is deleted stays deleted | 1 browser with 2 windows, 2 members, 2 articles, requests that take turns |

The bounds. `MaxOrders` stops new orders once that many were numbered; threads
that are already under way still get theirs, so two orders exist in
`order_overlap` although `MaxOrders = 1`. `MaxQty` stops purchases beyond that
quantity. Two threads are the least that interfere, and every interference in
this code is between two threads; two ossans are the least for which a copy or a
set of rows can be partial. Two carts per session (`Slots`) suffice for the
attribute and one replaced cart; with two threads a third would be garbage
before it is needed. `MC_OrderProcess` hides the content of carts nobody refers
to (`View`): no action reads them, and `BuyNewCart` empties a cart before use.
The pool run has more connections than requests at first; as `SaveCloseThrows` loses
them it passes through every smaller pool, the ones that nested borrowing exhausts
included.

In the member runs nothing is counted, so the only bounds are the sets. Two
members are the least that can be mixed up; a third row would play the part of
either. In `member_two_browsers` a deletion, a logout or a second login falls
between any two steps of the other browser's form.

In `login` the third row (`MaxKey`) is what an account needs that is registered,
deleted and registered again beside the administrator's. One session suffices: sessions
meet only in the fields, of which any two requests show the effects, and in the table,
and what a second session does to the table the second thread does as well. `Visited`, a
bound on the pages that are asked for, leaves out those that only show something.

In `paging` two rows a page and a third row make a second page come and
go; with `Start = 2` the walk meets both a row that is added before the page
(articles) and one behind it (ossans). `MaxPage` is one more than the seeded pages.
The lists are opened in pairs that do not share a field (`Opened`), which keeps the
product of the four small; both pairs are in one run.

In `articles` two windows share one browser, which is where attributes are shared; windows
of different browsers meet in the table only, where one window can do all that another
does. Requests take turns there, which `OwnText` needs; `AuthorsOwn` and `StaysDeleted` do
not, and are proved without.

`MC_LoginSession` hides the fields no request will read any more, `requestURI` of the
session, which nothing in the module reads, what it is set from, and the text of a password that
was stored as it was typed, which no login compares; `MC_Paging` hides the fields of
servlets that serve nobody, which are overwritten before they are read.

Deadlock is checked in `pool` and `articles`. The other systems really may
stop: all sessions may be over, every row deleted, or a bound may leave nothing to do.

### What goes wrong

Four runs violate what a comment or a message of the code says:

- `order_wrong_cart`: a request updates another customer's cart, by way of the servlet's
  field `session`;
- `order_lost_ack`: an order is stored although the code reports a roll-back;
- `member_wrong_row`: a member's form is written into another member's row, by way of
  the field `bb`, and reported as saved;
- `login_wrong_path`: a request is judged by the path of another, by way of the field
  `servletPath` of the filter.

The models reach more that a comment of the code speaks against. No property claims it
away: those that are near it say in their comments what they take.

| What | Comment | Steps |
|---|---|---|
| Of two purchases of one ossan at once, one is lost | `ShoppingCart.java:25`, the customer "adds to" the item | `AddLook` twice, then `AddPut` or `AddSum` twice (`Serial = FALSE`) |
| Of two first purchases at once, one goes with its cart | `BuyOssanServlet.java:36-40`, a cart is created "if none is found" | `BuyArrive` twice, then `BuyNewCart` twice (`Serial = FALSE`) |
| A part of an order is committed | `OrderServiceImpl.java:38`, "this is a transaction" | `InsertFails`, `RollbackRefused`, `CloseFailed` (fault `refused`) |
| The question before a deletion has one member's number and another's name | `OssanUpdate.jsp:26`, the question | `OssanPreUpdate` twice, then `Render` (`MemberMaintenance` with `Serial = FALSE`) |
| After the login a browser is to return to the page of another | `LoginCheckingFilter.java:69-70`, "remember the original requestURI" | `Judge` twice, then `Deny` twice |
| A weak password is stored | `RegisterServletMP.java:77`, what a password must have | `RegisterSubmit` twice, then `RegisterJudge` |
| An account has two rows | `RegisterServletMP.java:219`, an account that exists cannot be used | `RegisterExists` twice, then `RegisterSave` twice; `DuplicatesOverlap` says that it takes this |
| A visitor gets the page, the number or the cookie of another | `RetrieveOssanProducts.java:57`, `98` and `110` | `Ask` twice, then the queries, `SetNumber` and `Show` (`Turns = FALSE`) |
| A form has the text of one article and the number of another | `ModifyArticle.java:39`, the content goes into the form | `ShowText`, then `Keep` of another window, then `ShowForm` (`Articles` with `Turns = FALSE`) |
| The list of all articles is shown as a member's own | `ListArticle_Admin.java:61`, what was read goes "into the request" | `ListAll`, then `ShowMine` after `Keep` and `Clear` |

And some things are no disagreement because nothing in the repository says otherwise: with
two tabs an item bought between the copy and the removal of the cart is lost, and
the total can be that of an older cart; a window that still shows the page of a member
who has logged out goes on to change his articles in the session of the next one; anyone
can open the list of all articles by its address; an account typed into the
administrator's form may be taken.


## Fairness

Only `ConnPool` has a liveness property. `FairSpec` assumes weak fairness of each
request's handler (`Handle(r)`): Tomcat gives every request a thread that keeps
running, and the pool's timer wakes a thread whose wait is over. Nothing makes
a request arrive, so `Arrive` is not fair. Weak fairness suffices because a
waiting request can always either borrow or time out.

## Proofs

`OrderProcess_proofs`, for any sessions, threads, ossans, quantities and faults:

- `Typing`: the type invariant. Not inductive alone: `getSubtotal` multiplies
  what it finds under a key, so `LocalOK` adds that the keys an iterator has left
  are in the map as long as the iterator is not outdated, and that each place of
  a handler has the locals it uses.
- `TxInvariance`: the invariant of the transaction, `TxInv`. A commit shows a
  whole order only because of what is known on the way: numbers below `nextNo`
  only, no other thread inserting under the same number, auto-commit off,
  pending rows plus rows still to insert equal to the rows of the order, no row
  of that number visible before.
- `Atomicity` (`AllOrNothing`) and `Refinement` (`Spec => AtomicOrderSpec`) follow, all
  three under `Undone`: no rollback is refused on a connection that survives. In the
  refinement, `InsertOrderRow` is `Ask`, a commit that takes effect is `Place`, and every
  other step is a stutter.
- `StoredBeforeCleared` (`ClearedOnlyWhenStored`), without any assumption. `KeptInv`: the
  rows of an order in progress are pending on its own connection or committed, from
  the first insert until the cart is removed.
- `OwnCarts` (`OwnCart`), without any assumption, inductive with the types.
- `ClearsTheOrdered` (`ClearsWhatWasOrdered`), assuming `Undisturbed`: browsers wait for
  their answers (`Serial`), no request of `UpdateBookServlet` comes without a session, and
  nobody uses it or there is one session. `ClearInv`: a session has one request at most,
  and while an order is under way the attribute is the cart it copies from and the items
  copied so far agree with it. Other uses of `UpdateBookServlet` are excluded because its
  field makes the property false, which is what `order_wrong_cart` shows.
- `FailedLeavesNothing` (`FailedMeansRolledBack`), assuming that neither
  `commit()` nor the `finally` block fails and no rollback is refused. `FailInv`: the order number of a request
  that is failing is its own, or it has none yet, and no row of it is visible.

`SerialOrders_proofs`, for any sessions, threads, quantities and faults, any finite set
of ossans, and under `Undisturbed`:

- `NeverOutdated`: no iterator over a cart, and no `OrderItem` that a request has
  fetched, is ever outdated (`Fresh`). A step of one request changes neither the attribute
  of another's session nor the cart it works on (`OthersStay`), so the
  `ConcurrentModificationException` that `IterationFails` stands for needs two requests
  of one session;
- `TotalsMatch` (`TotalMatchesItems`), assuming `Undone`, too. The total is summed over the cart by one loop, in
  any order, and the items are copied from the cart by another, in any order; only
  the rows in the database can be summed again. `SumInv` says that the loop has the sum
  over the items it has visited, that until the order is numbered its total is the taxed
  subtotal of the cart, and that every order ever numbered consists of the items of some
  cart and their taxed subtotal (`Priced`). The rows of a visible order are those of one
  that was numbered (`TxInv`), and their sum is the subtotal (`RowsAddUp`). It rests on
  `Fresh` and `ClearInv`.

`ItemSums` has what this needs about sums: a sum over a finite set does not depend on
the order in which the elements are taken (`SumsAnyOrder`), and sets that correspond one
to one with equal amounts have equal sums (`SumsCorrespond`). These are facts about a
recursive definition, whose usual proof is an induction over finite sets; the induction
theorems of the library take an operator as a parameter, which the provers cannot
instantiate. So they are proved by minimal counterexample: if there were finite sets for
which the fact fails, there would be a smallest of them (`MinimalFinite`, from
`WFMin` and the well-foundedness of strict inclusion on finite sets), and taking one element away
from it gives a smaller one.

`ConnPool_proofs`, for any finite sets of requests and connections:

- `Typing`; `NoSharingNoLeak` (`Exclusive`), inductive with the type invariant;
- `NoCircularWait` (`NeverStuck`): if all usable connections are held by requests
  that wait for a second one, each of those holds exactly one, so there are at
  least as many requests as usable connections (`StuckNeedsAllConnections`).

`MemberMaintenance_proofs`, for any sets of members, browsers and threads:

- `Typing`; it holds for overlapping requests too;
- `RightRow` (`RowsDescribeTheirMembers`), `OwnPage` (`MembersSeeThemselves`) and
  `RightName` (`ConfirmsOneMember`), assuming `TakeTurns`: browsers wait for their
  answers, and requests of one form take turns, or no two requests overlap, or at
  most one browser works in each role. The findings show that neither half can be
  dropped;
- `RightAnnouncement` (`AnnouncedChangeIsTheirs`), under the same assumption: the run that
  violates it, `member_wrong_row`, needs two members' requests to overlap in one servlet.
- The invariant is `Order` (requests under way are of different browsers, and each
  form is with its role), then `Data`: as long as a browser has no request under
  way, its attribute is the bean of the member on its screen; while one is under
  way, attribute, field, local variables and screen agree as far as that place in
  the code needs it (`RenderOK`, `SaveOK`). None of the four properties is
  inductive: nothing in the servlets compares the key they save to with the form.

`LoginSession_proofs`, for any sessions, threads, accounts and passwords:

- `Typing` (invariant `Typed`: what each place of a handler has in its variables);
- `OverlapOnly` (`DuplicatesOverlap`), without any assumption. `CheckedInv`: what a
  registration was told when it looked the account up (`ToldInv`) still holds of the rows
  that were there then, since numbers rise and a row that gets another account is
  marked. No row is locked and no two requests are kept apart;
- `AttributesAgree` (`KeysAgree`), assuming `Waits`. `KeysInv`: at most one login of a
  session is under way (`LoginAlone`), what it has found so far is a row of its
  account unless that row is gone or changed (`Known`), and the attributes agree but
  between the two assignments (`Agreed`). That the second query finds no row while the
  first one's stands is excluded by the row of the first one itself;
- `RegistryRefinement` (`Spec => RegistrySpec`), without any assumption. `RegistryInv` is
  `Numbered` (the number is new) and `AdminInv` (the administrator's row is there). Every
  kind of step on the table (`RowSteps`) is a step of the registry on the entries
  (`StoresEntry`, `EditedEntry`, `DeletedEntry`), and every step of a registration one on
  what it was told (`ToldSteps`).

`Paging_proofs`, for any visitors, threads, lists, seeds and size of a page (the division
that counts pages is the subject of `RoundedUp`, `Pages` and `MorePages`):

- `Typing`; `LinksLeadSomewhere` (`LinksStayInside`), without any assumption.
  `LinkInv`: a number that a request, a field, a cookie or a page holds is
  between 1 and the number of pages as long as nothing was deleted, since tables
  only grow;
- `QuotesBelong` (`OwnQuote`), assuming `Turns` and `KeyOrder`. `QuoteInv`: the set of
  the first query is the page of an initial part of the rows there are now, and the field
  has the number the request has asked for (`AskedInv`); two such
  pages agree on their common positions (`Early`);
- `WalksSeeAll` (`WalkSeesAll`), under the same assumptions. `WalkInv`: the rows a
  visitor has not seen all lie behind the page he has reached (`Behind`), which
  stays true when rows are added (`BehindGrows`) and leaves nothing at the last page.

`Articles_proofs`, for any browsers, windows, members and articles:

- `Typing`; `NoReturn` (`StaysDeleted`), without any assumption: numbers are not
  given twice, and an update finds no row;
- `OwnArticles` (`AuthorsOwn`), without any assumption about overlapping requests,
  logouts and logins. `AllOwn`: where a page, a request or the attribute `article` names
  an article from a member's list, that number was given and its row, if there is one, is
  his (`Owned`). It stays so whoever is logged in by then, because a row never changes its
  author and a number is not given twice;
- `OwnTexts` (`OwnText`), assuming `Turns`. `TextsMatch` says that number and text
  belong together wherever both are, `TakeTurns` that a browser has one request.

The assumptions are those named in the modules: `CartAssumption` (with finitely many
ossans, as there are rows in a table), `OrderAssumption`,
`PoolAssumption`, `MemberAssumption`, `LoginAssumption`, `PagingAssumption` and
`ArticlesAssumption`; TLC evaluates them in every run. `Serial`, `Turns`, `Waits` and
`KeyOrder` are hypotheses of the theorems that need them and not of
the modules: the code does not enforce them.

Every invariant, action property and refinement that a passing run checks is also
proved. Only model-checked is `Answered`: liveness under fairness is beyond the prover.

## Not modelled

- E-mail, image delivery and the encoding helpers, JSP layout and static assets: I/O and
  layout. The state that JSP pages read and the links and buttons they offer are in
  the models of the servlets that forward to them.
- Start-up and seeding: sequential, before the application runs. Its result is the
  initial state of the tables.
- The JavaScript of the repository (`W/javascript`): `jquery-1.9.1.js` is the
  vendored library, whose inclusion in `fragment/top.jsp` (line 9) is commented out, and
  `eDM.js` is commented out from its first line to its last. Neither has logic of this program; all of that is in the
  Java classes and the JSP pages, which are what the models translate.
- The page numbers of two lists of articles, `ListArticle_Osson` (`pageNo_up`) and
  `ListArticle_Admin`: they page like the four lists of `Paging`, but also through
  attributes of the session. `Articles` lets them show any part of their list.

## Plan

What is left, in this order:

1. The page numbers of the two lists of articles above, in `Paging`, with the
   properties it has for the other lists.
2. `LoginSession` composed with `MemberMaintenance` and `Articles`: the role a page
   needs and the attributes its servlet reads come from the same session, and a
   login over another one changes both.
